---- MODULE Spec2Model ----
(***************************************************************************)
(* The opportunity extraction and scoring pipeline of the multilingual     *)
(* shopping-intelligence system: ImprovedOpportunityAnalyzer               *)
(* (opportunity_analyzer_improved.py) and OpportunityAnalyzer              *)
(* (opportunity_analyzer.py).                                              *)
(*                                                                         *)
(* Text is a sequence of one-character strings, so that lower(), strip(),  *)
(* slicing and substring tests are computed and not assumed.  A Python     *)
(* dict is a record plus the set of keys that are present ("keys") and,    *)
(* for values whose type the code depends on, a kind field.  Amounts with  *)
(* one decimal place (composite_score) are integers in tenths.             *)
(***************************************************************************)
EXTENDS Integers, Sequences, FiniteSets, TLC

VARIABLES
    analyzer,           \* "improved" | "basic": the class under analysis
    api_key,            \* self.api_key
    client,             \* self.client: "none" until anthropic.Anthropic(...) is created
    requests,           \* history: the batch of every client.messages.create call, in order
    response,           \* the answer text handed to a parser called on its own
    signals,            \* the signal list passed to analyze_signals / _batch_signals
    batch_size,         \* batch size in force (8 inline, or _batch_signals' parameter)
    batches,            \* the batches cut so far (signal_batches of the basic analyzer)
    i,                  \* loop position: signal offset (improved) / batch index (basic)
    all_opportunities,  \* candidates concatenated over the batches processed so far
    opportunities,      \* self.opportunities
    result,             \* the list analyze_signals returned
    unique,             \* the list _deduplicate_opportunities returned
    pc,                 \* "new" | "config_error" | "start" | "loop" | "done" | "raised"
    batch_log,          \* history: per processed batch, the answer, the parsing stages
                        \* and the candidates
    snapshot,           \* the file DATA_DIR/opportunities.json: who wrote it last, how
                        \* often this run wrote it, and the list it holds
    brief               \* the opportunities formatted into each section of the brief

vars == <<analyzer, api_key, client, requests, response, signals, batch_size, batches, i,
          all_opportunities, unique, opportunities, result, pc, batch_log, snapshot,
          brief>>

----------------------------------------------------------------------------
(* Bounds of the model *)

MaxCands == 3
MaxLines == 2
MaxBatchInput == 12
MaxBatchSize == 9

(* Program constants *)

ImprovedBatchSize == 8
BasicBatchSize == 5
TitleKeyLen == 50
DefaultSourceSignals == 3
CHARTER_FIT_THRESHOLD == 50
DefaultCharterFit == 50
FallbackCharterFit == 75
Feasibility == 75
CompetitiveAdvantage == 70

----------------------------------------------------------------------------
(* Python primitives on sequences and text *)

Min(a, b) == IF a <= b THEN a ELSE b

\* s[lo:hi] for 0 <= lo, with Python's clamping of hi to len(s)
Slice(s, lo, hi) == SubSeq(s, lo + 1, Min(hi, Len(s)))

\* int(x / d) for an integer x and d > 0: truncation toward zero
TruncDiv(x, d) == IF x >= 0 THEN x \div d ELSE -((-x) \div d)

UpperAlpha == <<"A","B","C","D","E","F","G","H","I","J","K","L","M",
                "N","O","P","Q","R","S","T","U","V","W","X","Y","Z">>

LowerAlpha == <<"a","b","c","d","e","f","g","h","i","j","k","l","m",
                "n","o","p","q","r","s","t","u","v","w","x","y","z">>

\* the lower-case letter of every upper-case letter
LowerOf ==
    [c \in {UpperAlpha[k] : k \in 1..26} |-> LowerAlpha[CHOOSE k \in 1..26 : UpperAlpha[k] = c]]

LowerChar(c) == IF c \in DOMAIN LowerOf THEN LowerOf[c] ELSE c

\* str.lower()
Lower(s) == [k \in 1..Len(s) |-> LowerChar(s[k])]

IsSpace(c) == c \in {" ", "\t"}

\* str.strip()
Strip(s) ==
    IF \A k \in 1..Len(s) : IsSpace(s[k])
    THEN << >>
    ELSE LET first == CHOOSE k \in 1..Len(s) :
                          /\ ~IsSpace(s[k])
                          /\ \A j \in 1..(k-1) : IsSpace(s[j])
             trailing == CHOOSE m \in 0..(Len(s) - 1) :
                          /\ ~IsSpace(s[Len(s) - m])
                          /\ \A j \in (Len(s) - m + 1)..Len(s) : IsSpace(s[j])
         IN SubSeq(s, first, Len(s) - trailing)

\* pat in s
Contains(s, pat) ==
    \E k \in 0..(Len(s) - Len(pat)) : \A j \in 1..Len(pat) : s[k + j] = pat[j]

----------------------------------------------------------------------------
(* Signals: a collected signal; only the fields the core reads are kept.   *)
(* has_engagement: the 'engagement' key is present; score: its 'score'.    *)

Signal(id, has_engagement, score) ==
    [id |-> id, has_engagement |-> has_engagement, score |-> score]

\* Engagement profiles of the input lists: a list without social signals,
\* and a mixed list (absent, zero, high, strongly negative, moderate).
EngagementOf(profile, id) ==
    IF profile = "plain" THEN Signal(id, FALSE, 0)
    ELSE CASE id % 5 = 1 -> Signal(id, TRUE, 456)
           [] id % 5 = 2 -> Signal(id, FALSE, 0)
           [] id % 5 = 3 -> Signal(id, TRUE, 0)
           [] id % 5 = 4 -> Signal(id, TRUE, -3000)
           [] OTHER      -> Signal(id, TRUE, 234)

SignalList(n, profile) == [k \in 1..n |-> EngagementOf(profile, k)]

----------------------------------------------------------------------------
(* Batcher *)

RECURSIVE BatchesFromShortSlice(_, _, _)
\* the slice ends one position early: signals[i:i+batch_size-1]
BatchesFromShortSlice(sigs, size, from) ==
    IF from >= Len(sigs) THEN << >>
    ELSE <<Slice(sigs, from, from + size - 1)>> \o BatchesFromShortSlice(sigs, size, from + size)

\* the loop of _batch_signals / analyze_signals from offset `from` on:
\* for i in range(from, len(signals), batch_size): signals[i:i+batch_size]
RECURSIVE BatchesFrom(_, _, _)
BatchesFrom(sigs, size, from) ==
    IF from >= Len(sigs) THEN << >>
    ELSE <<Slice(sigs, from, from + size)>> \o BatchesFrom(sigs, size, from + size)

\* an empty list gives one empty batch
BatchSignalsNeverEmpty(sigs, size) ==
    IF sigs = << >> THEN << << >> >> ELSE BatchesFrom(sigs, size, 0)

\* OpportunityAnalyzer._batch_signals
BatchSignals(sigs, size) == BatchesFrom(sigs, size, 0)

----------------------------------------------------------------------------
(* Opportunity candidates: the dict the parsers build.  "keys" is the set  *)
(* of keys present; *_kind is the JSON type of a value the code applies a  *)
(* typed operation to.  analysis_date is a key only (a timestamp).         *)

NoText == << >>

EmptyOpp ==
    [keys |-> {},
     title_kind |-> "str", title |-> NoText,
     cfs_kind |-> "int", charter_fit_score |-> 0,
     ms_kind |-> "str", market_size |-> NoText,
     idx_kind |-> "list", relevant_signal_indices |-> << >>,
     customer_pain_point |-> NoText, proposed_solution |-> NoText,
     competitive_intelligence |-> NoText, cultural_context |-> NoText,
     charter_expansion_angle |-> NoText,
     source_signals |-> << >>]

Has(opp, key) == key \in opp.keys

----------------------------------------------------------------------------
(* ImprovedOpportunityAnalyzer: response parser *)

\* The text of an answer is classified by the span that the pattern
\* \[\s*\{.*?\}\s*\] locates in it (resp.span): "none" (no match), "strict"
\* (json.loads accepts the span), "trailing_comma" (json.loads accepts it only
\* after the trailing commas are removed), "broken" (neither decode works),
\* "too_deep" (json.loads gives up on the nesting with a RecursionError,
\* which is not a JSONDecodeError).  resp.items is the decoded array.

\* the decodes _extract_json_from_response attempts, in order, each with the
\* list it produced (empty when the decode raised)
ExtractTrace(resp) ==
    IF resp.span = "none" THEN << >>
    ELSE IF resp.span = "strict" THEN <<[stage |-> "strict", items |-> resp.items]>>
    ELSE IF resp.span = "too_deep" THEN <<[stage |-> "strict", items |-> << >>]>>
    ELSE <<[stage |-> "strict", items |-> << >>],
           [stage |-> "repair",
            items |-> IF resp.span = "trailing_comma" THEN resp.items ELSE << >>]>>

\* the first json.loads raises an exception that line 157 does not catch
ExtractRaises(resp) == resp.span = "too_deep"

\* _extract_json_from_response: the list of the decode that worked, else []
ExtractJsonFromResponse(resp) ==
    LET trace == ExtractTrace(resp)
    IN IF trace = << >> THEN << >> ELSE trace[Len(trace)].items

Digits == <<"0","1","2","3","4","5","6","7","8","9">>

IsDigit(c) == \E d \in 1..10 : Digits[d] = c

DigitVal(c) == (CHOOSE d \in 1..10 : Digits[d] = c) - 1

RECURSIVE DigitRun(_, _, _)
\* the value of the maximal digit run of s that starts at position k,
\* continuing the value acc read so far
DigitRun(s, k, acc) ==
    IF k > Len(s) \/ ~IsDigit(s[k]) THEN acc
    ELSE DigitRun(s, k + 1, 10 * acc + DigitVal(s[k]))

\* re.search(r'(\d+)', line) matched
HasNumber(line) == \E k \in 1..Len(line) : IsDigit(line[k])

\* int(re.search(r'(\d+)', line).group(1))
FirstNumber(line) ==
    LET k == CHOOSE j \in 1..Len(line) :
                 IsDigit(line[j]) /\ \A h \in 1..(j-1) : ~IsDigit(line[h])
    IN DigitRun(line, k, 0)

HasColon(line) == \E k \in 1..Len(line) : line[k] = ":"

\* line.split(':', 1)[1]
AfterColon(line) ==
    LET k == CHOOSE j \in 1..Len(line) :
                 line[j] = ":" /\ \A h \in 1..(j-1) : line[h] # ":"
    IN SubSeq(line, k + 1, Len(line))

\* str.strip('"')
StripQuotes(s) ==
    IF \A k \in 1..Len(s) : s[k] = "\""
    THEN << >>
    ELSE LET first == CHOOSE k \in 1..Len(s) :
                          s[k] # "\"" /\ \A j \in 1..(k-1) : s[j] = "\""
             last == CHOOSE k \in 1..Len(s) :
                          s[k] # "\"" /\ \A j \in (k+1)..Len(s) : s[j] = "\""
         IN SubSeq(s, first, last)

\* one iteration of the line loop of _fallback_parse; st = [opps, cur]
FallbackLine(st, raw) ==
    LET line == Strip(raw)
        low == Lower(line)
        cur == st.cur
    IN IF Contains(low, <<"t","i","t","l","e">>) /\ HasColon(line)
       THEN [opps |-> IF Has(cur, "title") THEN Append(st.opps, cur) ELSE st.opps,
             cur |-> [EmptyOpp EXCEPT !.keys = {"title"},
                                      !.title = StripQuotes(Strip(AfterColon(line)))]]
       ELSE IF Contains(low, <<"c","h","a","r","t","e","r","_","f","i","t","_","s","c","o","r","e">>)
               \/ Contains(low, <<"s","c","o","r","e">>)
       THEN IF HasNumber(line)
            THEN [st EXCEPT !.cur.keys = @ \cup {"charter_fit_score"},
                            !.cur.charter_fit_score = FirstNumber(line)]
            ELSE st
       ELSE IF Contains(low, <<"p","a","i","n","_","p","o","i","n","t">>)
               \/ Contains(low, <<"c","u","s","t","o","m","e","r">>)
       THEN IF HasColon(line)
            THEN [st EXCEPT !.cur.keys = @ \cup {"customer_pain_point"},
                            !.cur.customer_pain_point = Strip(AfterColon(line))]
            ELSE st
       ELSE IF Contains(low, <<"s","o","l","u","t","i","o","n">>)
       THEN IF HasColon(line)
            THEN [st EXCEPT !.cur.keys = @ \cup {"proposed_solution"},
                            !.cur.proposed_solution = Strip(AfterColon(line))]
            ELSE st
       ELSE st

RECURSIVE FallbackScan(_, _)
FallbackScan(st, lines) ==
    IF lines = << >> THEN st
    ELSE FallbackScan(FallbackLine(st, Head(lines)), Tail(lines))

DefaultPainPoint == <<"C","u","s","t","o","m","e","r"," ","f","e","e","d","b","a","c","k"," ","i","n","d","i","c","a","t","e","s"," ","o","p","p","o","r","t","u","n","i","t","y">>

DefaultSolution == <<"S","o","l","u","t","i","o","n"," ","t","o"," ","b","e"," ","d","e","v","e","l","o","p","e","d">>

DefaultMarketSize == <<"M","a","r","k","e","t"," ","s","i","z","e"," ","t","o"," ","b","e"," ","d","e","t","e","r","m","i","n","e","d">>

DefaultCompetitive == <<"C","o","m","p","e","t","i","t","i","v","e"," ","a","n","a","l","y","s","i","s"," ","n","e","e","d","e","d">>

DefaultCultural == <<"C","u","l","t","u","r","a","l"," ","c","o","n","t","e","x","t"," ","r","e","l","e","v","a","n","t">>

DefaultExpansion == <<"E","x","p","a","n","d","s"," ","c","h","a","r","t","e","r"," ","s","c","o","p","e">>

\* the setdefault block without its market_size line
FillDefaultsWithoutMarketSize(opp, batch) ==
    [opp EXCEPT
        !.keys = @ \cup {"charter_fit_score", "customer_pain_point", "proposed_solution",
                         "competitive_intelligence", "cultural_context",
                         "charter_expansion_angle", "source_signals"},
        !.charter_fit_score = IF Has(opp, "charter_fit_score") THEN @ ELSE FallbackCharterFit,
        !.customer_pain_point = IF Has(opp, "customer_pain_point") THEN @ ELSE DefaultPainPoint,
        !.proposed_solution = IF Has(opp, "proposed_solution") THEN @ ELSE DefaultSolution,
        !.competitive_intelligence = IF Has(opp, "competitive_intelligence") THEN @ ELSE DefaultCompetitive,
        !.cultural_context = IF Has(opp, "cultural_context") THEN @ ELSE DefaultCultural,
        !.charter_expansion_angle = IF Has(opp, "charter_expansion_angle") THEN @ ELSE DefaultExpansion,
        !.source_signals = IF Has(opp, "source_signals") THEN @
                           ELSE Slice(batch, 0, DefaultSourceSignals)]

\* the setdefault block of _fallback_parse
FillDefaults(opp, batch) ==
    [opp EXCEPT
        !.keys = @ \cup {"charter_fit_score", "customer_pain_point", "proposed_solution",
                         "market_size", "competitive_intelligence", "cultural_context",
                         "charter_expansion_angle", "source_signals"},
        !.charter_fit_score = IF Has(opp, "charter_fit_score") THEN @ ELSE FallbackCharterFit,
        !.customer_pain_point = IF Has(opp, "customer_pain_point") THEN @ ELSE DefaultPainPoint,
        !.proposed_solution = IF Has(opp, "proposed_solution") THEN @ ELSE DefaultSolution,
        !.market_size = IF Has(opp, "market_size") THEN @ ELSE DefaultMarketSize,
        !.competitive_intelligence = IF Has(opp, "competitive_intelligence") THEN @ ELSE DefaultCompetitive,
        !.cultural_context = IF Has(opp, "cultural_context") THEN @ ELSE DefaultCultural,
        !.charter_expansion_angle = IF Has(opp, "charter_expansion_angle") THEN @ ELSE DefaultExpansion,
        !.source_signals = IF Has(opp, "source_signals") THEN @
                           ELSE Slice(batch, 0, DefaultSourceSignals)]

\* _fallback_parse(response_text, signals); resp.lines = response_text.split('\n')
FallbackParse(resp, batch) ==
    LET st == FallbackScan([opps |-> << >>, cur |-> EmptyOpp], resp.lines)
        found == IF Has(st.cur, "title") THEN Append(st.opps, st.cur) ELSE st.opps
    IN [k \in 1..Len(found) |-> FillDefaults(found[k], batch)]

\* the fallback runs whatever the decodes produced, and its result is used
ParseTraceAlwaysFallback(resp, batch) ==
    Append(ExtractTrace(resp), [stage |-> "fallback", items |-> FallbackParse(resp, batch)])

\* lines 121-126 of _analyze_batch_structured: the parsing stages one answer
\* goes through, in order, each with the candidates it produced
ParseTrace(resp, batch) ==
    IF ExtractRaises(resp) \/ ExtractJsonFromResponse(resp) # << >>
    THEN ExtractTrace(resp)
    ELSE Append(ExtractTrace(resp),
                [stage |-> "fallback", items |-> FallbackParse(resp, batch)])

\* `opportunities` at line 128: the candidates of the last stage
ParsedCandidates(resp, batch) ==
    LET trace == ParseTrace(resp, batch)
    IN trace[Len(trace)].items

----------------------------------------------------------------------------
(* ImprovedOpportunityAnalyzer: enrichment of one batch's candidates *)

RECURSIVE ResolveIndicesFromZero(_, _)
\* the lower bound test written 0 <= i: index 0 selects signals[-1], the last signal
ResolveIndicesFromZero(batch, indices) ==
    IF indices = << >> THEN << >>
    ELSE LET n == Head(indices)
             rest == ResolveIndicesFromZero(batch, Tail(indices))
         IN IF 0 <= n /\ n <= Len(batch)
            THEN <<batch[IF n = 0 THEN Len(batch) ELSE n]>> \o rest
            ELSE rest

RECURSIVE ResolveIndices(_, _)
\* [signals[i-1] for i in signal_indices if 0 < i <= len(signals)]
ResolveIndices(batch, indices) ==
    IF indices = << >> THEN << >>
    ELSE LET n == Head(indices)
             rest == ResolveIndices(batch, Tail(indices))
         IN IF 0 < n /\ n <= Len(batch) THEN <<batch[n]>> \o rest ELSE rest

\* the enrichment loop body raises: relevant_signal_indices is present and is
\* not a list of integers (null, a number, a list holding a string)
EnrichRaises(opp) == Has(opp, "relevant_signal_indices") /\ opp.idx_kind # "list"

\* the enrichment without lines 133-135: an empty resolution stays empty
EnrichWithoutDefault(opp, batch) ==
    LET signal_indices == IF Has(opp, "relevant_signal_indices")
                          THEN opp.relevant_signal_indices ELSE << >>
    IN [opp EXCEPT !.keys = @ \cup {"source_signals", "analysis_date"},
                   !.source_signals = ResolveIndices(batch, signal_indices)]

\* the enrichment loop body of _analyze_batch_structured
Enrich(opp, batch) ==
    LET signal_indices == IF Has(opp, "relevant_signal_indices")
                          THEN opp.relevant_signal_indices ELSE << >>
        resolved == ResolveIndices(batch, signal_indices)
    IN [opp EXCEPT !.keys = @ \cup {"source_signals", "analysis_date"},
                   !.source_signals = IF resolved = << >>
                                      THEN Slice(batch, 0, DefaultSourceSignals)
                                      ELSE resolved]

\* the parsing stages of one batch with the number of candidates of each;
\* none when the request itself failed
StageYields(resp, batch) ==
    IF resp.kind = "error" THEN << >>
    ELSE LET trace == ParseTrace(resp, batch)
         IN [k \in 1..Len(trace) |->
                [stage |-> trace[k].stage, yield |-> Len(trace[k].items)]]

\* a failed request is sent a second time
RequestsOfRetrying(batch, resp) ==
    IF resp.kind = "error" THEN <<batch, batch>> ELSE <<batch>>

\* the client.messages.create calls of one _analyze_batch_structured call:
\* line 112, once, whatever the answer
RequestsOf(batch, resp) == <<batch>>

\* the except clause returns the candidates enriched before the failure
AnalyzeBatchStructuredKeepsPartial(batch, resp) ==
    IF resp.kind = "error" \/ ExtractRaises(resp) THEN << >>
    ELSE LET parsed == ParsedCandidates(resp, batch)
             good == IF \E k \in 1..Len(parsed) : EnrichRaises(parsed[k])
                     THEN (CHOOSE k \in 1..Len(parsed) :
                              EnrichRaises(parsed[k])
                              /\ \A j \in 1..(k-1) : ~EnrichRaises(parsed[j])) - 1
                     ELSE Len(parsed)
         IN [k \in 1..good |-> Enrich(parsed[k], batch)]

\* _analyze_batch_structured(signals) given the service's answer resp:
\* resp.kind = "error" when client.messages.create raises
AnalyzeBatchStructured(batch, resp) ==
    IF resp.kind = "error" \/ ExtractRaises(resp) THEN << >>
    ELSE LET parsed == ParsedCandidates(resp, batch)
         IN IF \E k \in 1..Len(parsed) : EnrichRaises(parsed[k])
            THEN << >>
            ELSE [k \in 1..Len(parsed) |-> Enrich(parsed[k], batch)]

\* the try block of _analyze_batch_structured ends in its except clause
BatchFails(batch, resp) ==
    \/ resp.kind = "error"
    \/ ExtractRaises(resp)
    \/ LET parsed == ParsedCandidates(resp, batch)
       IN \E k \in 1..Len(parsed) : EnrichRaises(parsed[k])

----------------------------------------------------------------------------
(* ImprovedOpportunityAnalyzer: deduplicator *)

\* the key taken without strip()
TitleKeyNoStrip(opp) ==
    LET title == IF Has(opp, "title") THEN opp.title ELSE NoText
    IN Slice(Lower(title), 0, TitleKeyLen)

\* opp.get('title', '').lower().strip()[:50]
TitleKey(opp) ==
    LET title == IF Has(opp, "title") THEN opp.title ELSE NoText
    IN Slice(Strip(Lower(title)), 0, TitleKeyLen)

\* .lower() on a title that is present and is not a string raises
DedupRaises(opps) ==
    \E k \in 1..Len(opps) : Has(opps[k], "title") /\ opps[k].title_kind # "str"

RECURSIVE DedupFromForgetful(_, _)
\* seen_titles is emptied whenever a duplicate is dropped
DedupFromForgetful(opps, seen_titles) ==
    IF opps = << >> THEN << >>
    ELSE LET opp == Head(opps)
             title_key == TitleKey(opp)
         IN IF title_key # << >> /\ title_key \notin seen_titles
            THEN <<opp>> \o DedupFromForgetful(Tail(opps), seen_titles \cup {title_key})
            ELSE DedupFromForgetful(Tail(opps), {})

RECURSIVE DedupFrom(_, _)
DedupFrom(opps, seen_titles) ==
    IF opps = << >> THEN << >>
    ELSE LET opp == Head(opps)
             title_key == TitleKey(opp)
         IN IF title_key # << >> /\ title_key \notin seen_titles
            THEN <<opp>> \o DedupFrom(Tail(opps), seen_titles \cup {title_key})
            ELSE DedupFrom(Tail(opps), seen_titles)

\* _deduplicate_opportunities
DeduplicateOpportunities(opps) == DedupFrom(opps, {})

----------------------------------------------------------------------------
(* ImprovedOpportunityAnalyzer: scorer and ranker *)

RECURSIVE SumEngagement(_)
\* total_engagement: signal['engagement'].get('score', 0) over the signals
\* that have an 'engagement' key
SumEngagement(sigs) ==
    IF sigs = << >> THEN 0
    ELSE (IF Head(sigs).has_engagement THEN Head(sigs).score ELSE 0)
         + SumEngagement(Tail(sigs))

\* the score rounded down (floor) instead of truncated
ScoreCustomerEvidenceFloor(opp) ==
    LET sigs == IF Has(opp, "source_signals") THEN opp.source_signals ELSE << >>
        num_signals == Len(sigs)
        total_engagement == SumEngagement(sigs)
        base == 50 + Min(30, num_signals * 6)
    IN IF num_signals = 0 THEN 60
       ELSE IF total_engagement >= 20 * 20 * num_signals
            THEN Min(100, base + 20)
            ELSE (base * 20 * num_signals + total_engagement) \div (20 * num_signals)

\* _score_customer_evidence: int(min(100, 50 + min(30, n*6) + min(20, avg/20)))
\* with avg = total / n; int() truncates toward zero
ScoreCustomerEvidence(opp) ==
    LET sigs == IF Has(opp, "source_signals") THEN opp.source_signals ELSE << >>
        num_signals == Len(sigs)
        total_engagement == SumEngagement(sigs)
        base == 50 + Min(30, num_signals * 6)
    IN IF num_signals = 0 THEN 60
       ELSE IF total_engagement >= 20 * 20 * num_signals
            THEN Min(100, base + 20)
            ELSE TruncDiv(base * 20 * num_signals + total_engagement, 20 * num_signals)

\* .lower() on a market_size that is present and is not a string raises
MarketSizeRaises(opp) == Has(opp, "market_size") /\ opp.ms_kind # "str"

AnyTerm(text, terms) == \E t \in terms : Contains(text, t)

\* the million tier tested ahead of the billion tier
ScoreMarketSizeMillionFirst(opp) ==
    LET market_text == Lower(IF Has(opp, "market_size") THEN opp.market_size ELSE NoText)
    IN IF AnyTerm(market_text, {<<"m","i","l","l","i","o","n">>, <<"$","m">>, <<"m","n">>, <<"$","1","0","0">>, <<"$","2","0","0">>, <<"$","3","0","0">>, <<"$","4","0","0">>})
       THEN 85
       ELSE IF AnyTerm(market_text, {<<"b","i","l","l","i","o","n">>, <<"$","b">>, <<"b","n">>})
       THEN 95
       ELSE IF AnyTerm(market_text, {<<"l","a","r","g","e">>, <<"s","i","g","n","i","f","i","c","a","n","t">>, <<"s","u","b","s","t","a","n","t","i","a","l">>})
       THEN 75
       ELSE IF market_text # << >> THEN 65
       ELSE 55

\* _score_market_size
ScoreMarketSize(opp) ==
    LET market_text == Lower(IF Has(opp, "market_size") THEN opp.market_size ELSE NoText)
    IN IF AnyTerm(market_text, {<<"b","i","l","l","i","o","n">>, <<"$","b">>, <<"b","n">>})
       THEN 95
       ELSE IF AnyTerm(market_text, {<<"m","i","l","l","i","o","n">>, <<"$","m">>, <<"m","n">>,
                                     <<"$","1","0","0">>, <<"$","2","0","0">>,
                                     <<"$","3","0","0">>, <<"$","4","0","0">>})
       THEN 85
       ELSE IF AnyTerm(market_text, {<<"l","a","r","g","e">>,
                                     <<"s","i","g","n","i","f","i","c","a","n","t">>,
                                     <<"s","u","b","s","t","a","n","t","i","a","l">>})
       THEN 75
       ELSE IF market_text # << >> THEN 65
       ELSE 55

\* config.SCORING_CRITERIA[...]['weight'], in hundredths
WeightCharterFit == 30

WeightCustomerEvidence == 25

WeightMarketSize == 20

WeightFeasibility == 15

WeightCompetitiveAdvantage == 10

\* the weighted sum with the last criterion left out
WeightedSumWithoutAdvantage(scores) ==
    scores.charter_fit * WeightCharterFit
    + scores.customer_evidence * WeightCustomerEvidence
    + scores.market_size * WeightMarketSize
    + scores.feasibility * WeightFeasibility

\* the weighted sum of the sub-scores, in hundredths of a point
WeightedSum(scores) ==
    scores.charter_fit * WeightCharterFit
    + scores.customer_evidence * WeightCustomerEvidence
    + scores.market_size * WeightMarketSize
    + scores.feasibility * WeightFeasibility
    + scores.competitive_advantage * WeightCompetitiveAdvantage

\* round(x, 1) of x = hundredths / 100, in tenths.  An exact tie (x ends in 5
\* hundredths) is rounded to the even tenth here; the binary floating-point
\* sum of the code lies within an ulp of the tie and falls to either side.
Round1(hundredths) ==
    LET q == hundredths \div 10
        r == hundredths % 10
    IN IF r < 5 THEN q
       ELSE IF r > 5 THEN q + 1
       ELSE IF q % 2 = 0 THEN q ELSE q + 1

\* scores * weight raises: charter_fit_score is present and is not a number
CharterFitRaises(opp) == Has(opp, "charter_fit_score") /\ opp.cfs_kind # "int"

\* the scores dict built for one opportunity in _score_and_rank
DetailedScores(opp) ==
    [charter_fit |-> IF Has(opp, "charter_fit_score") THEN opp.charter_fit_score
                     ELSE DefaultCharterFit,
     customer_evidence |-> ScoreCustomerEvidence(opp),
     market_size |-> ScoreMarketSize(opp),
     feasibility |-> Feasibility,
     competitive_advantage |-> CompetitiveAdvantage]

\* the loop body without the detailed_scores assignment
ScoredWithoutDetails(opp) ==
    LET scores == DetailedScores(opp)
    IN [opp |-> [opp EXCEPT !.keys = @ \cup {"composite_score"}],
        composite_score |-> Round1(WeightedSum(scores)),
        detailed_scores |-> scores]

\* the loop body of _score_and_rank: the opportunity with its two new keys
Scored(opp) ==
    LET scores == DetailedScores(opp)
    IN [opp |-> [opp EXCEPT !.keys = @ \cup {"composite_score", "detailed_scores"}],
        composite_score |-> Round1(WeightedSum(scores)),
        detailed_scores |-> scores]

\* an element goes ahead of the elements with an equal key: ties end reversed
InsertDescendingUnstable(sorted, x) ==
    LET ahead == {k \in 1..Len(sorted) : sorted[k].composite_score > x.composite_score}
        at == IF ahead = {} THEN 0 ELSE CHOOSE k \in ahead : \A j \in ahead : j <= k
    IN SubSeq(sorted, 1, at) \o <<x>> \o SubSeq(sorted, at + 1, Len(sorted))

\* list.sort(key=composite_score, reverse=True): a stable sort, an element goes
\* behind every element whose key is not smaller
InsertDescending(sorted, x) ==
    LET ahead == {k \in 1..Len(sorted) : sorted[k].composite_score >= x.composite_score}
        at == IF ahead = {} THEN 0 ELSE CHOOSE k \in ahead : \A j \in ahead : j <= k
    IN SubSeq(sorted, 1, at) \o <<x>> \o SubSeq(sorted, at + 1, Len(sorted))

RECURSIVE SortDescending(_)
SortDescending(list) ==
    IF list = << >> THEN << >>
    ELSE InsertDescending(SortDescending(SubSeq(list, 1, Len(list) - 1)), list[Len(list)])

ScoreRaises(opps) ==
    \E k \in 1..Len(opps) : MarketSizeRaises(opps[k]) \/ CharterFitRaises(opps[k])

\* _score_and_rank without its sort
ScoreAndRankUnsorted(opps) == [k \in 1..Len(opps) |-> Scored(opps[k])]

\* _score_and_rank
ScoreAndRank(opps) == SortDescending([k \in 1..Len(opps) |-> Scored(opps[k])])

----------------------------------------------------------------------------
(* OpportunityAnalyzer (the basic analyzer) *)

BasicKeys == {"title", "charter_fit_score", "customer_pain_point", "proposed_solution",
              "market_size", "competitive_intelligence", "cultural_context",
              "charter_expansion_angle", "source_signals", "analysis_date"}

TitleMaxLen == 100

\* s.split('.')[0]
BeforeDot(s) ==
    IF \E k \in 1..Len(s) : s[k] = "."
    THEN LET k == CHOOSE j \in 1..Len(s) : s[j] = "." /\ \A h \in 1..(j-1) : s[h] # "."
         IN SubSeq(s, 1, k - 1)
    ELSE s

\* field += line + " "
AddLine(text, line) == text \o line \o <<" ">>

\* one iteration of the line loop of _parse_analysis;
\* st = [opportunity, current_section]
ParseLine(st, raw) ==
    LET line == Strip(raw)
    IN IF Contains(line, <<"R","E","L","E","V","A","N","C","E">>) \/ Contains(line, <<"C","H","A","R","T","E","R"," ","F","I","T">>)
       THEN IF HasNumber(line)
            THEN [st EXCEPT !.opportunity.charter_fit_score = FirstNumber(line)]
            ELSE st
       ELSE IF Contains(line, <<"C","U","S","T","O","M","E","R"," ","P","A","I","N"," ","P","O","I","N","T">>)
       THEN [st EXCEPT !.current_section = "pain_point"]
       ELSE IF Contains(line, <<"O","P","P","O","R","T","U","N","I","T","Y">>) /\ ~Contains(line, <<"M","A","R","K","E","T"," ","S","I","Z","E">>)
       THEN [st EXCEPT !.current_section = "solution"]
       ELSE IF Contains(line, <<"M","A","R","K","E","T"," ","S","I","Z","E">>)
       THEN [st EXCEPT !.current_section = "market_size"]
       ELSE IF Contains(line, <<"C","O","M","P","E","T","I","T","I","V","E"," ","I","N","T","E","L","L","I","G","E","N","C","E">>)
       THEN [st EXCEPT !.current_section = "competitive"]
       ELSE IF Contains(line, <<"C","U","L","T","U","R","A","L"," ","C","O","N","T","E","X","T">>)
       THEN [st EXCEPT !.current_section = "cultural"]
       ELSE IF Contains(line, <<"C","H","A","R","T","E","R"," ","E","X","P","A","N","S","I","O","N">>)
       THEN [st EXCEPT !.current_section = "charter_expansion"]
       ELSE IF line # << >> /\ st.current_section # "None"
       THEN CASE st.current_section = "pain_point" ->
                   [st EXCEPT !.opportunity.customer_pain_point = AddLine(@, line)]
              [] st.current_section = "solution" ->
                   [st EXCEPT !.opportunity.proposed_solution = AddLine(@, line)]
              [] st.current_section = "market_size" ->
                   [st EXCEPT !.opportunity.market_size = AddLine(@, line)]
              [] st.current_section = "competitive" ->
                   [st EXCEPT !.opportunity.competitive_intelligence = AddLine(@, line)]
              [] st.current_section = "cultural" ->
                   [st EXCEPT !.opportunity.cultural_context = AddLine(@, line)]
              [] OTHER ->
                   [st EXCEPT !.opportunity.charter_expansion_angle = AddLine(@, line)]
       ELSE st

RECURSIVE ParseScan(_, _)
ParseScan(st, lines) ==
    IF lines = << >> THEN st
    ELSE ParseScan(ParseLine(st, Head(lines)), Tail(lines))

\* the opportunity _parse_analysis has assembled before its threshold test
ParsedOpportunity(lines, source_signals) ==
    LET start == [EmptyOpp EXCEPT !.keys = BasicKeys, !.source_signals = source_signals]
        opp == ParseScan([opportunity |-> start, current_section |-> "None"], lines).opportunity
    IN IF opp.title = << >> /\ opp.proposed_solution # << >>
       THEN [opp EXCEPT !.title = Slice(BeforeDot(opp.proposed_solution), 0, TitleMaxLen)]
       ELSE opp

\* _parse_analysis(analysis, source_signals); lines = analysis.split('\n')
ParseAnalysis(lines, source_signals) ==
    LET opp == ParsedOpportunity(lines, source_signals)
    IN IF opp.charter_fit_score >= CHARTER_FIT_THRESHOLD THEN <<opp>> ELSE << >>

\* the client.messages.create calls of one _analyze_batch call: line 64, once
BasicRequestsOf(batch, resp) == <<batch>>

\* _analyze_batch(signals) given the service's answer resp:
\* resp.kind = "error" when client.messages.create raises
AnalyzeBatch(batch, resp) ==
    IF resp.kind = "error" THEN << >> ELSE ParseAnalysis(resp.lines, batch)

\* opp['title'].lower()[:50]
BasicTitleKey(opp) == Slice(Lower(opp.title), 0, TitleKeyLen)

\* opp['title'] on a candidate without the key, or .lower() on a title that is
\* not a string, raises
BasicDedupRaises(opps) ==
    \E k \in 1..Len(opps) : ~Has(opps[k], "title") \/ opps[k].title_kind # "str"

RECURSIVE BasicDedupFrom(_, _)
BasicDedupFrom(opps, seen_titles) ==
    IF opps = << >> THEN << >>
    ELSE LET opp == Head(opps)
             title_key == BasicTitleKey(opp)
         IN IF title_key \notin seen_titles
            THEN <<opp>> \o BasicDedupFrom(Tail(opps), seen_titles \cup {title_key})
            ELSE BasicDedupFrom(Tail(opps), seen_titles)

\* OpportunityAnalyzer._deduplicate_opportunities
BasicDeduplicateOpportunities(opps) == BasicDedupFrom(opps, {})

\* OpportunityAnalyzer._score_customer_evidence:
\* int(min(100, 50 + n*5 + avg/10)) with avg = total / n
BasicScoreCustomerEvidence(opp) ==
    LET sigs == IF Has(opp, "source_signals") THEN opp.source_signals ELSE << >>
        num_signals == Len(sigs)
        total == SumEngagement(sigs)
        base == 50 + num_signals * 5
    IN IF num_signals = 0 THEN 50
       ELSE IF base * 10 * num_signals + total >= 100 * 10 * num_signals
            THEN 100
            ELSE TruncDiv(base * 10 * num_signals + total, 10 * num_signals)

\* OpportunityAnalyzer._score_market_size
\* the basic scorer with the improved scorer's tiers
BasicScoreMarketSizeAsImproved(opp) == ScoreMarketSize(opp)

\* OpportunityAnalyzer._score_market_size
BasicScoreMarketSize(opp) ==
    LET market_text == Lower(IF Has(opp, "market_size") THEN opp.market_size ELSE NoText)
    IN IF Contains(market_text, <<"b","i","l","l","i","o","n">>)
          \/ (Contains(market_text, <<"$">>)
              /\ (Contains(market_text, <<"b">>) \/ Contains(market_text, <<"b","n">>)))
       THEN 95
       ELSE IF Contains(market_text, <<"m","i","l","l","i","o","n">>)
               \/ (Contains(market_text, <<"$">>)
                   /\ (Contains(market_text, <<"m">>) \/ Contains(market_text, <<"m","n">>)))
       THEN 85
       ELSE IF Contains(market_text, <<"l","a","r","g","e">>) \/ Contains(market_text, <<"s","i","g","n","i","f","i","c","a","n","t">>)
       THEN 75
       ELSE 60

\* the scores dict built for one opportunity in _score_opportunities
BasicDetailedScores(opp) ==
    [charter_fit |-> IF Has(opp, "charter_fit_score") THEN opp.charter_fit_score
                     ELSE DefaultCharterFit,
     customer_evidence |-> BasicScoreCustomerEvidence(opp),
     market_size |-> BasicScoreMarketSize(opp),
     feasibility |-> Feasibility,
     competitive_advantage |-> CompetitiveAdvantage]

\* the loop body of _score_opportunities
BasicScored(opp) ==
    LET scores == BasicDetailedScores(opp)
    IN [opp |-> [opp EXCEPT !.keys = @ \cup {"composite_score", "detailed_scores"}],
        composite_score |-> Round1(WeightedSum(scores)),
        detailed_scores |-> scores]

\* OpportunityAnalyzer._score_opportunities
ScoreOpportunities(opps) == SortDescending([k \in 1..Len(opps) |-> BasicScored(opps[k])])

----------------------------------------------------------------------------
(* The extraction service: what one request can answer *)

Seqs(S, n) == UNION {[1..m -> S] : m \in 0..n}

JsonKeys == {"title", "charter_fit_score", "customer_pain_point", "proposed_solution",
             "market_size", "competitive_intelligence", "cultural_context",
             "charter_expansion_angle", "relevant_signal_indices"}

\* a decoded JSON object with every key of the prompt's example
JsonItem(title, score, market, indices) ==
    [EmptyOpp EXCEPT !.keys = JsonKeys, !.title = title, !.charter_fit_score = score,
                     !.market_size = market, !.relevant_signal_indices = indices]

\* two titles that differ only behind the first TitleKeyLen characters
LongTitle(last) == [k \in 1..(TitleKeyLen + 1) |-> IF k <= TitleKeyLen THEN "x" ELSE last]

ItemVoice == JsonItem(<<"A","b">>, 90, <<"1","b","n">>, <<1, 99>>)

ItemVoiceAgain == JsonItem(<<" ","a","B"," ">>, 40, NoText, <<2, 0, 1>>)

ItemLong == JsonItem(LongTitle("y"), 150, <<"L","a","r","g","e">>, <<0>>)

ItemLongAgain ==
    [JsonItem(LongTitle("z"), 0, NoText, << >>)
        EXCEPT !.keys = @ \ {"charter_fit_score", "market_size", "relevant_signal_indices"}]

ItemTie == JsonItem(<<"T">>, 90, <<"1","b","n">>, <<1, 99>>)

ItemUntitled ==
    [JsonItem(NoText, -5, <<"$","5","m">>, <<-1>>) EXCEPT !.keys = @ \ {"title"}]

ItemBlankTitle == JsonItem(<<" "," ">>, 60, <<"t","b","d">>, <<4>>)

ItemNullTitle == [JsonItem(NoText, 70, NoText, <<1>>) EXCEPT !.title_kind = "null"]

ItemBadTypes ==
    [JsonItem(<<"S">>, 0, NoText, <<1>>) EXCEPT !.cfs_kind = "str", !.ms_kind = "num"]

ItemBadIndices == [JsonItem(<<"X">>, 80, NoText, << >>) EXCEPT !.idx_kind = "bad"]

ItemPool == {ItemVoice, ItemVoiceAgain, ItemLong, ItemLongAgain, ItemTie, ItemUntitled,
             ItemBlankTitle, ItemNullTitle, ItemBadTypes, ItemBadIndices}

\* the objects of the arrays that decode only after the trailing-comma repair
RepairedItemPool == {ItemTie, ItemBadIndices}

LinePool == {
    <<"t","i","t","l","e",":"," ","A","b">>,
    <<"s","c","o","r","e",":"," ","1","5","0">>,
    <<"T","i","t","l","e",":"," ","\"","T","\"">>,
    <<"c","u","s","t","o","m","e","r",":"," ","x">>,
    <<"s","o","l","u","t","i","o","n",":"," ","y">> }

\* no answer is held
NoResponse == [kind |-> "none", span |-> "none", items |-> << >>, lines |-> << >>]

ErrorResponse == [kind |-> "error", span |-> "none", items |-> << >>, lines |-> << >>]

\* the answer "[]"
EmptyArrayResponse ==
    [kind |-> "text", span |-> "none", items |-> << >>, lines |-> << <<"[", "]">> >>]

\* an answer whose array nests deeper than json.loads follows, after a title line
TooDeepResponse ==
    [kind |-> "text", span |-> "too_deep", items |-> << >>,
     lines |-> << <<"t","i","t","l","e",":"," ","A","b">> >>]

\* what the history keeps of an answer: a failed request, the text "[]", or
\* any other text
AnswerClass(resp) ==
    IF resp.kind = "error" THEN "error"
    ELSE IF resp = EmptyArrayResponse THEN "[]"
    ELSE "text"

\* the answers to one request that yield at most `budget` candidates
ImprovedResponses(budget) ==
    {ErrorResponse, EmptyArrayResponse, TooDeepResponse}
    \cup {[kind |-> "text", span |-> "strict", items |-> it, lines |-> << >>] :
            it \in Seqs(ItemPool, budget) \ {<< >>}}
    \cup {[kind |-> "text", span |-> "trailing_comma", items |-> it, lines |-> << >>] :
            it \in Seqs(RepairedItemPool, Min(budget, 1)) \ {<< >>}}
    \cup {[kind |-> "text", span |-> "none", items |-> << >>, lines |-> ls] :
            ls \in Seqs(LinePool, Min(budget, MaxLines))}
    \cup {[kind |-> "text", span |-> "broken", items |-> << >>, lines |-> ls] :
            ls \in Seqs(LinePool, Min(budget, 1))}

ResponsesWithin == [budget \in 0..MaxCands |-> ImprovedResponses(budget)]

\* the lines of a basic-analyzer answer: an optional score line, an optional
\* OPPORTUNITY section and an optional MARKET SIZE section
BasicScoreLines == {<< >>, <<<<"C","H","A","R","T","E","R"," ","F","I","T",":"," ","9","0">>>>, <<<<"C","H","A","R","T","E","R"," ","F","I","T",":"," ","4","0">>>>,
                    <<<<"4","."," ","C","H","A","R","T","E","R"," ","F","I","T"," ","(","0","-","1","0","0",")",":"," ","9","0">>>>}

BasicSolutionLines == {<< >>, <<<<"3","."," ","O","P","P","O","R","T","U","N","I","T","Y",":">>, <<"A","b">>>>, <<<<"3","."," ","O","P","P","O","R","T","U","N","I","T","Y",":">>, <<"a","B">>>>,
                       <<<<"3","."," ","O","P","P","O","R","T","U","N","I","T","Y",":">>, <<"T","."," ","S","o">>>>}

BasicMarketLines == {<< >>, <<<<"5","."," ","M","A","R","K","E","T"," ","S","I","Z","E",":">>, <<"1","b","n">>>>, <<<<"5","."," ","M","A","R","K","E","T"," ","S","I","Z","E",":">>, <<"$","5"," ","b","y">>>>}

BasicResponses ==
    {ErrorResponse}
    \cup {[kind |-> "text", span |-> "none", items |-> << >>, lines |-> sc \o so \o ma] :
            sc \in BasicScoreLines, so \in BasicSolutionLines, ma \in BasicMarketLines}

----------------------------------------------------------------------------
(* analyze_signals, one call on a constructed analyzer *)

\* lengths of the input lists: empty, shorter than the default evidence,
\* one basic batch, and two basic batches (more than one batch in both classes)
SignalCounts == {0, 2, BasicBatchSize, 2 * BasicBatchSize}

\* no brief generated
NoBrief == [top |-> << >>, quick_wins |-> << >>, actions |-> << >>]

\* no snapshot file in the data directory
NoSnapshot == [writes |-> 0, by |-> "nobody", list |-> << >>]

\* no analyzer object yet; signals is the list analyze_signals will be given
Init ==
    /\ analyzer \in {"improved", "basic"}
    /\ api_key = ""
    /\ client = "none"
    /\ requests = << >>
    /\ response = NoResponse
    /\ signals \in {SignalList(n, "social") : n \in SignalCounts}
    /\ batch_size = IF analyzer = "improved" THEN ImprovedBatchSize ELSE BasicBatchSize
    /\ batches = << >>
    /\ i = 0
    /\ all_opportunities = << >>
    /\ unique = << >>
    /\ opportunities = << >>
    /\ result = << >>
    /\ pc = "new"
    /\ batch_log = << >>
    /\ snapshot = NoSnapshot
    /\ brief = NoBrief

\* the api_key argument: omitted (None), empty, or a key
ApiKeyArguments == {"None", "", "sk-key"}

\* config.ANTHROPIC_API_KEY: os.getenv("ANTHROPIC_API_KEY", "")
ConfiguredApiKeys == {"", "sk-key"}

\* a or b
Or(a, b) == IF a \notin {"None", ""} THEN a ELSE b

\* __init__(config, api_key) of either class
Construct ==
    /\ pc = "new"
    /\ \E argument \in ApiKeyArguments, configured \in ConfiguredApiKeys :
          /\ api_key' = Or(argument, configured)
          /\ IF api_key' \in {"None", ""}
             THEN /\ pc' = "config_error"
                  /\ client' = client
             ELSE /\ client' = "created"
                  /\ pc' = "start"
    /\ opportunities' = << >>
    /\ UNCHANGED <<brief, snapshot, analyzer, requests, response, signals, batch_size, batches, i, all_opportunities,
                   unique, result, batch_log>>

\* ImprovedOpportunityAnalyzer.analyze_signals up to the loop: the early
\* return on an empty list
ImprovedEntry ==
    /\ analyzer = "improved" /\ pc = "start"
    /\ pc' = IF Len(signals) = 0 THEN "done" ELSE "loop"
    /\ UNCHANGED <<brief, snapshot, analyzer, api_key, client, response, signals, batch_size, batches, i,
                   all_opportunities, unique, opportunities, result, batch_log, requests>>

\* batch = signals[i:i+batch_size] of the next loop iteration
CutBatch ==
    /\ batches' = Append(batches, Slice(signals, i, i + batch_size))
    /\ i' = i + batch_size

\* the answers of a service that does answer: a failure, an empty array, an
\* array of one opportunity, an array whose title is null
AnswersWhenAnswered ==
    {ErrorResponse, EmptyArrayResponse}
    \cup {[kind |-> "text", span |-> "strict", items |-> <<item>>, lines |-> << >>] :
             item \in {ItemVoice, ItemNullTitle}}

AnswersWhenAnsweredWithin ==
    [budget \in 0..MaxCands |-> IF budget = 0 THEN {ErrorResponse, EmptyArrayResponse}
                                ELSE AnswersWhenAnswered]

BasicAnswersWhenAnswered ==
    {ErrorResponse} \cup {resp \in BasicResponses : Len(resp.lines) <= 2}

\* what the service answers to a request of these calls
CallAnswers ==
    [budget \in 0..MaxCands |->
        IF budget = 0 THEN {ErrorResponse, EmptyArrayResponse}
        ELSE AnswersWhenAnswered
             \cup {[kind |-> "text", span |-> "strict", items |-> <<item>>, lines |-> << >>] :
                      item \in {ItemTie, ItemLong, ItemVoiceAgain, ItemBlankTitle}}
             \cup (IF budget = 1 THEN {}
                   ELSE {[kind |-> "text", span |-> "strict", items |-> <<ItemVoiceAgain, ItemTie>>,
                          lines |-> << >>]})]

\* the answers of the service of each specification, indexed by the number
\* of candidates still admitted
ImprovedAnswers(service) ==
    CASE service = "any" -> ResponsesWithin
      [] service = "answering" -> AnswersWhenAnsweredWithin
      [] service = "calls" -> CallAnswers

BasicAnswers(service) ==
    CASE service = "any" -> BasicResponses
      [] service = "answering" -> BasicAnswersWhenAnswered

\* one iteration of the loop of analyze_signals, the service answering with
\* one of the answers of the given service
ImprovedBatchFrom(service) ==
    /\ analyzer = "improved" /\ pc = "loop"
    /\ i < Len(signals)
    /\ CutBatch
    /\ \E resp \in ImprovedAnswers(service)[MaxCands - Len(all_opportunities)] :
          LET batch == Slice(signals, i, i + batch_size)
              batch_opps == AnalyzeBatchStructured(batch, resp)
          IN /\ Len(all_opportunities) + Len(batch_opps) <= MaxCands
             /\ all_opportunities' = all_opportunities \o batch_opps
             /\ requests' = requests \o RequestsOf(batch, resp)
             /\ batch_log' = Append(batch_log, [failed |-> BatchFails(batch, resp),
                                                answer |-> AnswerClass(resp),
                                                trace |-> StageYields(resp, batch),
                                                extracted |-> batch_opps,
                                                opps |-> batch_opps])
    /\ UNCHANGED <<brief, snapshot, analyzer, api_key, client, response, signals, batch_size, unique, opportunities,
                   result, pc>>

\* one iteration of the loop of analyze_signals, the service answering resp
ImprovedBatch == ImprovedBatchFrom("any")

\* the rest of analyze_signals after the loop: deduplicate, score and rank,
\* store and return; an exception here reaches the caller.  unique keeps the
\* list _deduplicate_opportunities returned, as it was before the in-place sort.
ImprovedFinish ==
    /\ analyzer = "improved" /\ pc = "loop"
    /\ i >= Len(signals)
    /\ IF DedupRaises(all_opportunities)
       THEN /\ pc' = "raised"
            /\ UNCHANGED <<unique, opportunities, result>>
       ELSE /\ unique' = DeduplicateOpportunities(all_opportunities)
            /\ IF ScoreRaises(unique')
               THEN /\ pc' = "raised"
                    /\ UNCHANGED <<opportunities, result>>
               ELSE /\ result' = ScoreAndRank(unique')
                    /\ opportunities' = result'
                    /\ pc' = "done"
    /\ UNCHANGED <<brief, snapshot, analyzer, api_key, client, response, signals, batch_size, batches, i,
                   all_opportunities, batch_log, requests>>

\* OpportunityAnalyzer.analyze_signals up to the loop: _batch_signals(signals)
BasicEntry ==
    /\ analyzer = "basic" /\ pc = "start"
    /\ batches' = BatchSignals(signals, batch_size)
    /\ pc' = "loop"
    /\ UNCHANGED <<brief, snapshot, analyzer, api_key, client, response, signals, batch_size, i, all_opportunities, unique,
                   opportunities, result, batch_log, requests>>

\* one iteration of the loop of analyze_signals, the service answering with
\* one of the answers of the given service
BasicBatchFrom(service) ==
    /\ analyzer = "basic" /\ pc = "loop"
    /\ i < Len(batches)
    /\ i' = i + 1
    /\ \E resp \in BasicAnswers(service) :
          LET batch == batches[i + 1]
              batch_opportunities == AnalyzeBatch(batch, resp)
          IN /\ all_opportunities' = all_opportunities \o batch_opportunities
             /\ requests' = requests \o BasicRequestsOf(batch, resp)
             /\ batch_log' = Append(batch_log,
                    [failed |-> resp.kind = "error",
                     answer |-> AnswerClass(resp),
                     trace |-> << >>,
                     extracted |-> IF resp.kind = "error" THEN << >>
                                   ELSE <<ParsedOpportunity(resp.lines, batch)>>,
                     opps |-> batch_opportunities])
    /\ UNCHANGED <<brief, snapshot, analyzer, api_key, client, response, signals, batch_size, batches, unique,
                   opportunities, result, pc>>

\* one iteration of the loop of analyze_signals, the service answering resp
BasicBatch == BasicBatchFrom("any")

\* the rest of analyze_signals after the loop
BasicFinish ==
    /\ analyzer = "basic" /\ pc = "loop"
    /\ i >= Len(batches)
    /\ unique' = BasicDeduplicateOpportunities(all_opportunities)
    /\ result' = ScoreOpportunities(unique')
    /\ opportunities' = result'
    /\ pc' = "done"
    /\ UNCHANGED <<brief, snapshot, analyzer, api_key, client, response, signals, batch_size, batches, i,
                   all_opportunities, batch_log, requests>>

Next ==
    \/ Construct
    \/ ImprovedEntry
    \/ ImprovedBatch
    \/ ImprovedFinish
    \/ BasicEntry
    \/ BasicBatch
    \/ BasicFinish

Spec == Init /\ [][Next]_vars

----------------------------------------------------------------------------
(* analyze_signals with a service that may never answer.  The client is     *)
(* created without a timeout argument and messages.create is called without *)
(* one: the call returns only when the client library returns or raises.    *)

\* the next iteration's client.messages.create call is made and no answer
\* arrives: the analyzer is blocked inside the call
ServiceHangs ==
    /\ pc = "loop"
    /\ IF analyzer = "improved"
       THEN /\ i < Len(signals)
            /\ CutBatch
            /\ requests' = Append(requests, Slice(signals, i, i + batch_size))
       ELSE /\ i < Len(batches)
            /\ i' = i + 1
            /\ requests' = Append(requests, batches[i + 1])
            /\ UNCHANGED batches
    /\ pc' = "waiting"
    /\ UNCHANGED <<brief, snapshot, analyzer, api_key, client, response, signals, batch_size,
                   all_opportunities, unique, opportunities, result, batch_log>>

\* the client library gives the call up and raises: the except clause makes
\* the batch an empty one
ClientGivesUp ==
    /\ pc = "waiting"
    /\ batch_log' = Append(batch_log, [failed |-> TRUE, answer |-> "error", trace |-> << >>,
                                       extracted |-> << >>, opps |-> << >>])
    /\ pc' = "loop"
    /\ UNCHANGED <<brief, snapshot, analyzer, api_key, client, requests, response, signals, batch_size,
                   batches, i, all_opportunities, unique, opportunities, result>>

\* the steps of the analyzer's own code
ProgramStep ==
    \/ Construct
    \/ ImprovedEntry
    \/ ImprovedBatchFrom("answering")
    \/ ImprovedFinish
    \/ BasicEntry
    \/ BasicBatchFrom("answering")
    \/ BasicFinish

NextHang ==
    \/ ProgramStep
    \/ ServiceHangs
    \/ ClientGivesUp

\* the analyzer's code runs whenever it can; nothing in the code makes the
\* client give a pending call up
SpecHang == Init /\ [][NextHang]_vars /\ WF_vars(ProgramStep)

----------------------------------------------------------------------------
(* Several analyze_signals calls on one ImprovedOpportunityAnalyzer: the     *)
(* locals of a call are fresh, the attribute self.opportunities lives on.    *)

\* the signals arguments of the calls
CallSignals == {SignalList(n, "social") : n \in {0, 1, 9}}

InitCalls ==
    /\ analyzer = "improved"
    /\ api_key = "sk-key"
    /\ client = "created"
    /\ requests = << >>
    /\ response = NoResponse
    /\ signals \in CallSignals
    /\ batch_size = ImprovedBatchSize
    /\ batches = << >>
    /\ i = 0
    /\ all_opportunities = << >>
    /\ unique = << >>
    /\ opportunities = << >>
    /\ result = << >>
    /\ pc = "start"
    /\ batch_log = << >>
    /\ snapshot = NoSnapshot
    /\ brief = NoBrief

\* the caller, holding what the last call returned or raised, calls
\* analyze_signals again on the same object
CallAgain ==
    /\ pc \in {"done", "raised"}
    /\ signals' \in CallSignals
    /\ batches' = << >>
    /\ i' = 0
    /\ all_opportunities' = << >>
    /\ unique' = << >>
    /\ result' = << >>
    /\ response' = NoResponse
    /\ requests' = << >>
    /\ batch_log' = << >>
    /\ pc' = "start"
    /\ UNCHANGED <<brief, snapshot, analyzer, api_key, client, batch_size, opportunities>>

NextCalls ==
    \/ ImprovedEntry
    \/ ImprovedBatchFrom("calls")
    \/ ImprovedFinish
    \/ CallAgain

SpecCalls == InitCalls /\ [][NextCalls]_vars

----------------------------------------------------------------------------
(* main(): one run of the pipeline, step 2.  main_improved.py uses the      *)
(* improved analyzer, main_old.py the basic one.                            *)

\* the snapshot an earlier run left in the data directory
EarlierSnapshot ==
    [writes |-> 0, by |-> "earlier run", list |-> ScoreAndRank(<<ItemTie>>)]

InitMain ==
    /\ analyzer \in {"improved", "basic"}
    /\ api_key = ""
    /\ client = "none"
    /\ requests = << >>
    /\ response = NoResponse
    /\ signals \in {SignalList(n, "social") : n \in SignalCounts}
    /\ batch_size = IF analyzer = "improved" THEN ImprovedBatchSize ELSE BasicBatchSize
    /\ batches = << >>
    /\ i = 0
    /\ all_opportunities = << >>
    /\ unique = << >>
    /\ opportunities = << >>
    /\ result = << >>
    /\ pc = "new"
    /\ batch_log = << >>
    /\ snapshot \in {NoSnapshot, EarlierSnapshot}
    /\ brief = NoBrief

\* main up to the constructor call: the key of --api-key or of the
\* environment; without one the run uses mock opportunities
MainStep2 ==
    /\ pc = "new"
    /\ \E key \in ConfiguredApiKeys :
          IF key = ""
          THEN /\ pc' = "mock_no_key"
               /\ UNCHANGED <<api_key, client>>
          ELSE /\ api_key' = key
               /\ client' = "created"
               /\ pc' = "start"
    /\ UNCHANGED <<brief, snapshot, analyzer, requests, response, signals, batch_size, batches, i,
                   all_opportunities, unique, opportunities, result, batch_log>>

\* the snapshot after save_opportunities(): json.dump(self.opportunities)
Saved(snap, list) == [writes |-> snap.writes + 1, by |-> "this run", list |-> list]

\* main after analyze_signals: the except clause, the `if not opportunities`
\* of main_improved, and analyzer.save_opportunities()
MainAfterAnalysis ==
    /\ pc \in {"done", "raised"}
    /\ IF pc = "raised"
       THEN /\ pc' = "mock_after_failure"
            /\ UNCHANGED snapshot
       ELSE IF analyzer = "improved" /\ result = << >>
            THEN /\ pc' = "mock_after_empty"
                 /\ UNCHANGED snapshot
            ELSE /\ snapshot' = Saved(snapshot, opportunities)
                 /\ pc' = "saved"
    /\ UNCHANGED <<brief, analyzer, api_key, client, requests, response, signals, batch_size,
                   batches, i, all_opportunities, unique, opportunities, result, batch_log>>

NextMain ==
    \/ MainStep2
    \/ ImprovedEntry
    \/ ImprovedBatchFrom("answering")
    \/ ImprovedFinish
    \/ BasicEntry
    \/ BasicBatchFrom("answering")
    \/ BasicFinish
    \/ MainAfterAnalysis

SpecMain == InitMain /\ [][NextMain]_vars

----------------------------------------------------------------------------
(* BriefGenerator.generate_brief on its own: the opportunities that reach   *)
(* each section of the brief.  composite_score is held in tenths.           *)

TOP_OPPORTUNITIES_COUNT == 8
QUICK_WINS_COUNT == 3
QuickWinScore == 75
QuickWinFeasibility == 80
RecommendedActionsCount == 3

\* _is_quick_win
IsQuickWin(o) ==
    o.composite_score >= QuickWinScore * 10 /\ o.detailed_scores.feasibility >= QuickWinFeasibility

\* generate_brief: the opportunities handed to _format_opportunity,
\* _format_quick_wins and _format_recommended_actions
BriefSections(opps) ==
    [top |-> Slice(opps, 0, Min(TOP_OPPORTUNITIES_COUNT, Len(opps))),
     quick_wins |-> Slice(SelectSeq(opps, IsQuickWin), 0, QUICK_WINS_COUNT),
     actions |-> Slice(opps, 0, RecommendedActionsCount)]

\* the opportunities of the lists handed to the generator
BriefPool == {ItemVoice, ItemVoiceAgain, ItemLong, ItemTie, ItemBlankTitle}

\* result is the list analyze_signals returned, handed to generate_brief
InitBrief ==
    /\ analyzer = "improved"
    /\ api_key = "sk-key"
    /\ client = "created"
    /\ requests = << >>
    /\ response = NoResponse
    /\ signals = << >>
    /\ batch_size = ImprovedBatchSize
    /\ batches = << >>
    /\ i = 0
    /\ all_opportunities = << >>
    /\ unique = << >>
    /\ opportunities = << >>
    /\ result \in {ScoreAndRank(list) : list \in Seqs(BriefPool, MaxCands)}
    /\ pc = "step3"
    /\ batch_log = << >>
    /\ snapshot = NoSnapshot
    /\ brief = NoBrief

\* generator.generate_brief(opportunities, signals)
GenerateBrief ==
    /\ pc = "step3"
    /\ brief' = BriefSections(result)
    /\ pc' = "briefed"
    /\ UNCHANGED <<snapshot, analyzer, api_key, client, requests, response, signals,
                   batch_size, batches, i, all_opportunities, unique, opportunities, result,
                   batch_log>>

SpecBrief == InitBrief /\ [][GenerateBrief]_vars

----------------------------------------------------------------------------
(* The batcher on its own: _batch_signals called with any batch size, and  *)
(* the slicing of the improved loop with its batch size of 8               *)

InitBatch ==
    /\ analyzer \in {"improved", "basic"}
    /\ api_key = "sk-key"
    /\ client = "created"
    /\ requests = << >>
    /\ response = NoResponse
    /\ signals \in {SignalList(n, "social") : n \in 0..MaxBatchInput}
    /\ batch_size \in IF analyzer = "improved" THEN {ImprovedBatchSize} ELSE 1..MaxBatchSize
    /\ batches = << >>
    /\ i = 0
    /\ all_opportunities = << >>
    /\ unique = << >>
    /\ opportunities = << >>
    /\ result = << >>
    /\ pc = "start"
    /\ batch_log = << >>
    /\ snapshot = NoSnapshot
    /\ brief = NoBrief

\* _batch_signals(signals, batch_size)
BatchSignalsCall ==
    /\ analyzer = "basic" /\ pc = "start"
    /\ batches' = BatchSignals(signals, batch_size)
    /\ pc' = "done"
    /\ UNCHANGED <<brief, snapshot, analyzer, api_key, client, response, signals, batch_size, i, all_opportunities, unique,
                   opportunities, result, batch_log, requests>>

\* the slice taken by one iteration of the improved loop; what the analysis of
\* the batch returns does not change what is cut
ImprovedSlice ==
    /\ analyzer = "improved" /\ pc = "loop"
    /\ i < Len(signals)
    /\ CutBatch
    /\ UNCHANGED <<brief, snapshot, analyzer, api_key, client, response, signals, batch_size, all_opportunities, unique,
                   opportunities, result, pc, batch_log, requests>>

NextBatch == BatchSignalsCall \/ ImprovedEntry \/ ImprovedSlice

SpecBatch == InitBatch /\ [][NextBatch]_vars

----------------------------------------------------------------------------
(* The fallback line-scanner on its own: _fallback_parse called with a text *)
(* and a batch                                                              *)

ExampleTitleLine == <<"t","i","t","l","e",":"," ","S","p","a","n","i","s","h"," ","V","o","i","c","e"," ","S","e","a","r","c","h">>

ExampleScoreLine == <<"s","c","o","r","e",":"," ","9","0">>

FallbackLinePool ==
    LinePool \cup {ExampleTitleLine, ExampleScoreLine,
                   <<"n","o"," ","t","i","t","l","e"," ","h","e","r","e">>}

InitFallback ==
    /\ analyzer = "improved"
    /\ api_key = "sk-key"
    /\ client = "created"
    /\ requests = << >>
    /\ response \in {[kind |-> "text", span |-> "none", items |-> << >>, lines |-> ls] :
                        ls \in Seqs(FallbackLinePool, MaxLines)}
    /\ signals \in {SignalList(n, "social") : n \in {2, BasicBatchSize}}
    /\ batch_size = ImprovedBatchSize
    /\ batches = << >>
    /\ i = 0
    /\ all_opportunities = << >>
    /\ unique = << >>
    /\ opportunities = << >>
    /\ result = << >>
    /\ pc = "fallback"
    /\ batch_log = << >>
    /\ snapshot = NoSnapshot
    /\ brief = NoBrief

\* _fallback_parse(response_text, signals)
FallbackCall ==
    /\ pc = "fallback"
    /\ all_opportunities' = FallbackParse(response, signals)
    /\ pc' = "parsed"
    /\ UNCHANGED <<brief, snapshot, analyzer, api_key, client, requests, response, signals, batch_size,
                   batches, i, unique, opportunities, result, batch_log>>

SpecFallback == InitFallback /\ [][FallbackCall]_vars

----------------------------------------------------------------------------
(* The basic analyzer's section parser on its own *)

\* RELEVANCE / CHARTER FIT lines of an answer: as the prompt template
\* numbers them, bare, below the threshold, and without a value
ParseScoreLinePool ==
    {<<"1","."," ","R","E","L","E","V","A","N","C","E"," ","(","0","-","1","0","0",")",":"," ","8","0">>,
     <<"4","."," ","C","H","A","R","T","E","R"," ","F","I","T"," ","(","0","-","1","0","0",")",":"," ","9","0">>,
     <<"C","H","A","R","T","E","R"," ","F","I","T",":"," ","9","0">>,
     <<"R","E","L","E","V","A","N","C","E",":"," ","8","5">>,
     <<"C","H","A","R","T","E","R"," ","F","I","T",":"," ","4","0">>,
     <<"C","H","A","R","T","E","R"," ","F","I","T",":"," ","h","i","g","h">>}

\* the OPPORTUNITY section of an answer, if any
ParseSolutionLines == {<< >>, <<<<"3","."," ","O","P","P","O","R","T","U","N","I","T","Y",":">>, <<"A","b">>>>}

InitParse ==
    /\ analyzer = "basic"
    /\ api_key = "sk-key"
    /\ client = "created"
    /\ requests = << >>
    /\ response \in {[kind |-> "text", span |-> "none", items |-> << >>, lines |-> sc \o so] :
                        sc \in Seqs(ParseScoreLinePool, MaxLines), so \in ParseSolutionLines}
    /\ signals \in {SignalList(n, "social") : n \in {2, BasicBatchSize}}
    /\ batch_size = BasicBatchSize
    /\ batches = << >>
    /\ i = 0
    /\ all_opportunities = << >>
    /\ unique = << >>
    /\ opportunities = << >>
    /\ result = << >>
    /\ pc = "parse"
    /\ batch_log = << >>
    /\ snapshot = NoSnapshot
    /\ brief = NoBrief

\* _parse_analysis(analysis, signals)
ParseCall ==
    /\ pc = "parse"
    /\ all_opportunities' = ParseAnalysis(response.lines, signals)
    /\ pc' = "parsed_sections"
    /\ UNCHANGED <<brief, snapshot, analyzer, api_key, client, requests, response, signals, batch_size,
                   batches, i, unique, opportunities, result, batch_log>>

SpecParse == InitParse /\ [][ParseCall]_vars

----------------------------------------------------------------------------
(* The scorer on its own: _score_and_rank called with one opportunity *)

MarketTexts == {
    <<"$","2"," ","b","i","l","l","i","o","n">>,
    <<"$","B">>,
    <<"1","B","N">>,
    <<"5"," ","M","i","l","l","i","o","n"," ","u","s","e","r","s">>,
    <<"$","m">>,
    <<"2","0","m","n">>,
    <<"$","1","0","0","k">>,
    <<"$","4","0","0">>,
    <<"$","5","0","0">>,
    <<"L","a","r","g","e">>,
    <<"a"," ","S","I","G","N","I","F","I","C","A","N","T"," ","o","n","e">>,
    <<"s","u","b","s","t","a","n","t","i","a","l">>,
    <<"n","i","c","h","e">>,
    <<" ">>,
    <<>>,
    <<"M","i","l","l","i","o","n",","," ","l","a","t","e","r"," ","a"," ","B","i","l","l","i","o","n">>,
    <<"l","a","r","g","e",","," ","$","3","b","n">>,
    <<"a"," ","l","a","r","g","e"," ","$","2","0","0"," ","m","a","r","k","e","t">>,
    <<"S","u","b","m","i","l","l","i","o","n">> }

\* the source_signals lists of the scored opportunities
SourceSignalLists ==
    {<< >>}
    \cup {SignalList(n, profile) : n \in 1..6, profile \in {"plain", "social"}}
    \cup {<<Signal(1, TRUE, score)>> : score \in {-1130, -41, -1, 19, 20, 399, 400, 1000}}
    \cup {<<Signal(1, TRUE, 30), Signal(2, FALSE, 0), Signal(3, TRUE, -90)>>}

\* the opportunities handed to the scorer: market_size a text, absent or a
\* number; source_signals a list or absent
ScoredInputs ==
    {[JsonItem(<<"A","b">>, 80, text, << >>) EXCEPT
          !.keys = @ \cup {"source_signals"}, !.source_signals = sigs] :
        text \in MarketTexts, sigs \in SourceSignalLists}
    \cup {[JsonItem(<<"A","b">>, 80, NoText, << >>) EXCEPT
              !.keys = (@ \ {"market_size"}) \cup {"source_signals"},
              !.source_signals = sigs] : sigs \in SourceSignalLists}
    \cup {[JsonItem(<<"A","b">>, 80, text, << >>) EXCEPT !.source_signals = <<Signal(1, TRUE, 456)>>] :
              text \in MarketTexts}
    \cup {[JsonItem(<<"A","b">>, 80, NoText, << >>) EXCEPT
              !.keys = @ \cup {"source_signals"}, !.ms_kind = "int",
              !.source_signals = <<Signal(1, FALSE, 0)>>]}

\* an opportunity supported by n signals, each with engagement score e
Supported(n, e) ==
    [JsonItem(<<"A","b">>, 80, NoText, << >>) EXCEPT
        !.keys = @ \cup {"source_signals"},
        !.source_signals = [k \in 1..n |-> Signal(k, TRUE, e)]]

\* the lists of several opportunities handed to the scorer: extracted
\* candidates, and pairs of which the second has one supporting signal more
\* at the same engagement
ScoredLists ==
    {list \in Seqs({ItemVoice, ItemVoiceAgain, ItemTie, ItemLong}, MaxCands) : Len(list) >= 2}
    \cup {<<Supported(n, e), Supported(n + 1, e)>> : n \in 0..5, e \in {0, 100, 400}}

\* all_opportunities is the list object handed to the scorer; unique keeps
\* what it held before the call
InitScore ==
    /\ analyzer \in {"improved", "basic"}
    /\ api_key = "sk-key"
    /\ client = "created"
    /\ requests = << >>
    /\ response = NoResponse
    /\ signals = << >>
    /\ batch_size = IF analyzer = "improved" THEN ImprovedBatchSize ELSE BasicBatchSize
    /\ batches = << >>
    /\ i = 0
    /\ unique \in {<<opp>> : opp \in ScoredInputs} \cup ScoredLists
    /\ all_opportunities = unique
    /\ opportunities = << >>
    /\ result = << >>
    /\ pc = "score"
    /\ batch_log = << >>
    /\ snapshot = NoSnapshot
    /\ brief = NoBrief

\* the scorer of the analyzer's class
ScoreWith(class, opps) ==
    IF class = "improved" THEN ScoreAndRank(opps) ELSE ScoreOpportunities(opps)

\* _score_and_rank(all_opportunities, signals) / _score_opportunities(...):
\* the loop assigns into the dicts of the list and list.sort() sorts the list
\* object itself, which is also what is returned
ScoreCall ==
    /\ pc = "score"
    /\ IF ScoreRaises(all_opportunities)
       THEN pc' = "raised" /\ UNCHANGED <<result, all_opportunities>>
       ELSE /\ pc' = "scored"
            /\ result' = ScoreWith(analyzer, all_opportunities)
            /\ all_opportunities' = result'
    /\ UNCHANGED <<brief, snapshot, analyzer, api_key, client, requests, response, signals, batch_size,
                   batches, i, unique, opportunities, batch_log>>

\* the scorer called a second time on the same list; what it returns is kept
\* in opportunities
ScoreAgain ==
    /\ pc = "scored"
    /\ opportunities' = ScoreWith(analyzer, [k \in 1..Len(all_opportunities) |->
                                                all_opportunities[k].opp])
    /\ pc' = "scored_again"
    /\ UNCHANGED <<brief, snapshot, analyzer, api_key, client, requests, response, signals, batch_size,
                   batches, i, all_opportunities, unique, result, batch_log>>

NextScore == ScoreCall \/ ScoreAgain

SpecScore == InitScore /\ [][NextScore]_vars

----------------------------------------------------------------------------
(* The deduplicator on its own: _deduplicate_opportunities called on a list *)
(* and then on the list it returned                                         *)

InitDedup ==
    /\ analyzer \in {"improved", "basic"}
    /\ api_key = "sk-key"
    /\ client = "created"
    /\ requests = << >>
    /\ response = NoResponse
    /\ signals = << >>
    /\ batch_size = IF analyzer = "improved" THEN ImprovedBatchSize ELSE BasicBatchSize
    /\ batches = << >>
    /\ i = 0
    /\ all_opportunities \in Seqs(ItemPool, MaxCands)
    /\ unique = << >>
    /\ opportunities = << >>
    /\ result = << >>
    /\ pc = "dedup"
    /\ batch_log = << >>
    /\ snapshot = NoSnapshot
    /\ brief = NoBrief

\* unique = self._deduplicate_opportunities(all_opportunities)
DedupCall ==
    /\ pc = "dedup"
    /\ IF analyzer = "improved"
       THEN IF DedupRaises(all_opportunities)
            THEN pc' = "raised" /\ UNCHANGED unique
            ELSE pc' = "deduped" /\ unique' = DeduplicateOpportunities(all_opportunities)
       ELSE IF BasicDedupRaises(all_opportunities)
            THEN pc' = "raised" /\ UNCHANGED unique
            ELSE pc' = "deduped" /\ unique' = BasicDeduplicateOpportunities(all_opportunities)
    /\ UNCHANGED <<brief, snapshot, analyzer, api_key, client, requests, response, signals, batch_size,
                   batches, i, all_opportunities, opportunities, result, batch_log>>

\* self._deduplicate_opportunities(unique); the second result is kept in
\* opportunities
DedupAgain ==
    /\ pc = "deduped"
    /\ opportunities' = IF analyzer = "improved" THEN DeduplicateOpportunities(unique)
                        ELSE BasicDeduplicateOpportunities(unique)
    /\ pc' = "deduped_again"
    /\ UNCHANGED <<brief, snapshot, analyzer, api_key, client, requests, response, signals, batch_size,
                   batches, i, all_opportunities, unique, result, batch_log>>

NextDedup == DedupCall \/ DedupAgain

SpecDedup == InitDedup /\ [][NextDedup]_vars

----------------------------------------------------------------------------
(* Properties *)

RECURSIVE Flatten(_)
Flatten(lists) == IF lists = << >> THEN << >> ELSE Head(lists) \o Flatten(Tail(lists))

RECURSIVE PickFrom(_, _, _)
\* the elements of seq at the positions of S that are >= p, in order
PickFrom(seq, S, p) ==
    IF p > Len(seq) THEN << >>
    ELSE (IF p \in S THEN <<seq[p]>> ELSE << >>) \o PickFrom(seq, S, p + 1)

\* a returned opportunity without the two keys the scorer adds
Unscored(r) == [r.opp EXCEPT !.keys = @ \ {"composite_score", "detailed_scores"}]

\* the candidates of the batches processed so far, in batch order
LoggedCandidates == Flatten([k \in 1..Len(batch_log) |-> batch_log[k].opps])

\* the title key as the specification defines it: lowercased, trimmed,
\* first 50 characters; a missing title counts as empty
SpecTitleKey(opp) ==
    LET title == IF Has(opp, "title") THEN opp.title ELSE << >>
        trimmed == Strip(Lower(title))
    IN SubSeq(trimmed, 1, Min(50, Len(trimmed)))

\* result holds exactly the elements of unique
ReturnsExactly(list) ==
    /\ Len(result) = Len(list)
    /\ \A j \in 1..Len(list) : \E k \in 1..Len(result) : Unscored(result[k]) = list[j]

\* C1: analyze_signals of the improved analyzer raises no exception, whatever
\* the service returns.
C1_NoExceptionReachesCaller == analyzer = "improved" => pc # "raised"

\* the candidates of the run in which every failed batch answered "[]" instead
CandidatesIfFailedWereEmpty ==
    Flatten([k \in 1..Len(batch_log) |->
                IF batch_log[k].failed
                THEN IF analyzer = "improved"
                     THEN AnalyzeBatchStructured(batches[k], EmptyArrayResponse)
                     ELSE AnalyzeBatch(batches[k], EmptyArrayResponse)
                ELSE batch_log[k].opps])

\* C2: a batch whose extraction, parsing or enrichment fails contributes no
\* candidate, every batch is still processed, and the result is the one of
\* the run in which the failed batches had answered an empty array.
C2_FailedBatchCountsAsEmpty ==
    /\ \A k \in 1..Len(batch_log) : batch_log[k].failed => batch_log[k].opps = << >>
    /\ all_opportunities = CandidatesIfFailedWereEmpty
    /\ pc \in {"done", "raised"} =>
          Len(batch_log) = (Len(signals) + batch_size - 1) \div batch_size
    /\ pc = "done" =>
          result = IF analyzer = "improved"
                   THEN ScoreAndRank(DeduplicateOpportunities(CandidatesIfFailedWereEmpty))
                   ELSE ScoreOpportunities(BasicDeduplicateOpportunities(CandidatesIfFailedWereEmpty))

\* a run whose first batch failed and whose second batch produced the result
C2_Witness ==
    /\ pc = "done" /\ Len(batch_log) = 2
    /\ batch_log[1].failed /\ batch_log[2].opps # << >>
    /\ result # << >>

\* C3: every returned opportunity of the improved analyzer has its five
\* sub-scores in 0..100 and its composite score in [0, 100].
C3_ScoresInRange ==
    (analyzer = "improved" /\ pc = "done") =>
        \A k \in 1..Len(result) :
            LET d == result[k].detailed_scores
            IN /\ d.charter_fit \in 0..100
               /\ d.customer_evidence \in 0..100
               /\ d.market_size \in 0..100
               /\ d.feasibility \in 0..100
               /\ d.competitive_advantage \in 0..100
               /\ result[k].composite_score \in 0..1000

\* positions of the candidates that are the first with their title key
FirstOfKey(cands) ==
    {p \in 1..Len(cands) :
        \A q \in 1..(p-1) : SpecTitleKey(cands[q]) # SpecTitleKey(cands[p])}

NonEmptyKey(cands) == {p \in 1..Len(cands) : SpecTitleKey(cands[p]) # << >>}

\* C4 as stated: of the candidates with equal title keys exactly one survives
\* deduplication, the earliest in batch order, and the survivors keep their
\* input order.
C4_FirstOfEveryKeySurvives ==
    (analyzer = "improved" /\ pc = "done") =>
        /\ all_opportunities = LoggedCandidates
        /\ unique = PickFrom(all_opportunities, FirstOfKey(all_opportunities), 1)
        /\ ReturnsExactly(unique)

\* C4 amended: the same for the candidates whose title key is not empty;
\* those with an empty key do not survive at all.
C4_FirstOfEveryNonEmptyKeySurvives ==
    (analyzer = "improved" /\ pc = "done") =>
        /\ all_opportunities = LoggedCandidates
        /\ unique = PickFrom(all_opportunities,
                             FirstOfKey(all_opportunities) \cap NonEmptyKey(all_opportunities), 1)
        /\ ReturnsExactly(unique)

\* two candidates of different batches share a key, and the later one has the
\* higher charter_fit_score
C4_Witness ==
    /\ analyzer = "improved" /\ pc = "done" /\ Len(batch_log) = 2
    /\ \E p \in 1..Len(batch_log[1].opps) :
       \E q \in (Len(batch_log[1].opps) + 1)..Len(all_opportunities) :
          /\ SpecTitleKey(all_opportunities[p]) = SpecTitleKey(all_opportunities[q])
          /\ SpecTitleKey(all_opportunities[p]) # << >>
          /\ all_opportunities[p].charter_fit_score < all_opportunities[q].charter_fit_score

\* C5: no returned opportunity has an empty title key, in both analyzers.
C5_EmptyTitleKeyNeverReturned ==
    pc = "done" => \A k \in 1..Len(result) : SpecTitleKey(result[k].opp) # << >>

BatchingFinished ==
    \/ analyzer = "basic" /\ pc = "done"
    \/ analyzer = "improved" /\ pc \in {"loop", "done"} /\ i >= Len(signals)

\* C6: batching N signals with batch size B gives ceil(N/B) non-empty slices
\* of at most B signals whose concatenation is the input; none for N = 0.
C6_BatchesPartitionTheSignals ==
    BatchingFinished =>
        /\ Len(batches) = (Len(signals) + batch_size - 1) \div batch_size
        /\ Flatten(batches) = signals
        /\ \A k \in 1..Len(batches) : Len(batches[k]) \in 1..batch_size
        /\ Len(signals) = 0 => batches = << >>

\* three batches or more with a last batch that is not full
C6_Witness ==
    /\ BatchingFinished /\ Len(batches) >= 3
    /\ Len(batches[Len(batches)]) < batch_size

\* C7: analyze_signals returns exactly the survivors of deduplication, and no
\* extracted candidate is removed before deduplication, in both analyzers.
C7_ReturnsEveryDedupSurvivor ==
    pc = "done" =>
        /\ \A k \in 1..Len(batch_log) :
              batch_log[k].failed \/ batch_log[k].opps = batch_log[k].extracted
        /\ all_opportunities = LoggedCandidates
        /\ ReturnsExactly(unique)

\* the position an entry of result had after deduplication
PositionInUnique(r) == CHOOSE j \in 1..Len(unique) : unique[j] = Unscored(r)

\* C8: the returned list is the deduplicated list in non-increasing order of
\* composite_score, entries with equal scores in their order after
\* deduplication.
C8_RankedStableDescending ==
    pc = "done" =>
        /\ ReturnsExactly(unique)
        /\ \A a, b \in 1..Len(result) :
              a < b =>
                 /\ result[a].composite_score >= result[b].composite_score
                 /\ result[a].composite_score = result[b].composite_score
                       => PositionInUnique(result[a]) < PositionInUnique(result[b])

\* three opportunities, two of them with equal scores, that the sort reordered
C8_Witness ==
    /\ pc = "done" /\ Len(result) = 3
    /\ \E a \in 1..2 : result[a].composite_score = result[a + 1].composite_score
    /\ result[1].composite_score > result[3].composite_score
    /\ Unscored(result[1]) # unique[1]

\* the weighted sum the specification gives, in hundredths of a point
SpecWeightedSum(d) ==
    30 * d.charter_fit + 25 * d.customer_evidence + 20 * d.market_size
    + 15 * d.feasibility + 10 * d.competitive_advantage

\* C9: composite_score is the weighted sum of the five sub-scores (weights
\* 0.30, 0.25, 0.20, 0.15, 0.10) rounded to one decimal place, and the
\* configured weights sum to 1.
C9_CompositeIsRoundedWeightedSum ==
    /\ WeightCharterFit + WeightCustomerEvidence + WeightMarketSize
          + WeightFeasibility + WeightCompetitiveAdvantage = 100
    /\ pc = "done" =>
          \A k \in 1..Len(result) :
              (10 * result[k].composite_score
                 - SpecWeightedSum(result[k].detailed_scores)) \in -5..5

\* an opportunity whose weighted sum has a second decimal that is rounded away
C9_Witness ==
    /\ pc = "done"
    /\ \E k \in 1..Len(result) : SpecWeightedSum(result[k].detailed_scores) % 10 # 0

\* the batch elements at the listed positions that lie in 1..Len(batch)
ListedInRange(batch, indices) ==
    LET kept == SelectSeq(indices, LAMBDA n : n \in 1..Len(batch))
    IN [k \in 1..Len(kept) |-> batch[kept[k]]]

SignalsOf(batch) == {batch[k] : k \in 1..Len(batch)}

\* the candidate of batch k at position j is one of the returned opportunities
Returned(k, j) ==
    pc = "done" /\ \E r \in 1..Len(result) : Unscored(result[r]) = batch_log[k].opps[j]

StageRank(stage) ==
    CASE stage = "strict" -> 1 [] stage = "repair" -> 2 [] stage = "fallback" -> 3

\* the stages are tried in the order strict, repair, fallback, each at most
\* once; a stage is tried only if every stage before it produced nothing, the
\* repair only after the strict decode, and after a strict decode the fallback
\* only after the repair
ChainInOrder(trace) ==
    /\ \A a, b \in 1..Len(trace) : a < b => StageRank(trace[a].stage) < StageRank(trace[b].stage)
    /\ \A a \in 1..(Len(trace) - 1) : trace[a].yield = 0
    /\ \A a \in 1..Len(trace) :
          trace[a].stage = "repair" => (a = 2 /\ trace[1].stage = "strict")
    /\ (Len(trace) > 1 /\ trace[Len(trace)].stage = "fallback") =>
          (Len(trace) = 3 /\ trace[2].stage = "repair")
    /\ (trace # << >> /\ trace[1].stage = "strict" /\ trace[1].yield > 0) => Len(trace) = 1

\* every stage was tried and none produced a candidate
AllStagesYieldNone(trace) ==
    /\ trace # << >>
    /\ trace[Len(trace)].stage = "fallback"
    /\ \A a \in 1..Len(trace) : trace[a].yield = 0

\* C12 as stated: an answer goes through strict decode, one repaired decode and
\* the line-scanning fallback in this order, a later stage only when the earlier
\* ones produced nothing; the batch yields no candidate only if all stages
\* yield none.
C12_FallsThroughAndYieldsUnlessAllFail ==
    analyzer = "improved" =>
        \A k \in 1..Len(batch_log) :
            batch_log[k].answer # "error" =>
               /\ ChainInOrder(batch_log[k].trace)
               /\ batch_log[k].opps = << >> => AllStagesYieldNone(batch_log[k].trace)

\* C12 amended: the same for the batches whose decoding and enrichment raise
\* nothing; such a batch yields the candidates of the last stage tried.
C12_FallsThroughAndYieldsUnlessAllFailOrRaise ==
    analyzer = "improved" =>
        \A k \in 1..Len(batch_log) :
            batch_log[k].answer # "error" =>
               /\ ChainInOrder(batch_log[k].trace)
               /\ ~batch_log[k].failed =>
                     /\ batch_log[k].trace # << >>
                     /\ Len(batch_log[k].opps)
                           = batch_log[k].trace[Len(batch_log[k].trace)].yield
                     /\ batch_log[k].opps = << >> => AllStagesYieldNone(batch_log[k].trace)

\* an answer whose span neither decode accepts and whose lines give a candidate
C12_Witness ==
    /\ analyzer = "improved"
    /\ \E k \in 1..Len(batch_log) :
          /\ ~batch_log[k].failed
          /\ Len(batch_log[k].trace) = 3
          /\ batch_log[k].trace[3].yield > 0
          /\ batch_log[k].opps # << >>

\* the fields every candidate must carry
RequiredFields ==
    {"title", "charter_fit_score", "customer_pain_point", "proposed_solution", "market_size",
     "competitive_intelligence", "cultural_context", "charter_expansion_angle",
     "source_signals"}

\* some line of the text mentions the word
Mentions(lines, word) == \E k \in 1..Len(lines) : Contains(Lower(lines[k]), word)

\* C13: every candidate of the fallback line-scanner has all required fields,
\* a missing one set to its default; the text 'title: Spanish Voice Search',
\* 'score: 90' yields one candidate with that title, score 90 and defaults
\* elsewhere.
C13_FallbackFillsEveryField ==
    pc = "parsed" =>
        /\ \A k \in 1..Len(all_opportunities) :
              LET opp == all_opportunities[k]
              IN /\ RequiredFields \subseteq opp.keys
                 /\ opp.market_size = DefaultMarketSize
                 /\ opp.competitive_intelligence = DefaultCompetitive
                 /\ opp.cultural_context = DefaultCultural
                 /\ opp.charter_expansion_angle = DefaultExpansion
                 /\ opp.source_signals = SubSeq(signals, 1, Min(3, Len(signals)))
                 /\ ~Mentions(response.lines, <<"s","c","o","r","e">>)
                       => opp.charter_fit_score = 75
                 /\ ~Mentions(response.lines, <<"s","o","l","u","t","i","o","n">>)
                       => opp.proposed_solution = DefaultSolution
                 /\ (~Mentions(response.lines, <<"c","u","s","t","o","m","e","r">>)
                     /\ ~Mentions(response.lines, <<"p","a","i","n","_","p","o","i","n","t">>))
                       => opp.customer_pain_point = DefaultPainPoint
        /\ response.lines = <<ExampleTitleLine, ExampleScoreLine>> =>
              /\ Len(all_opportunities) = 1
              /\ all_opportunities[1].title = SubSeq(ExampleTitleLine, 8, Len(ExampleTitleLine))
              /\ all_opportunities[1].charter_fit_score = 90
              /\ all_opportunities[1].customer_pain_point = DefaultPainPoint
              /\ all_opportunities[1].proposed_solution = DefaultSolution

\* the example text has been scanned
C13_Witness ==
    /\ pc = "parsed"
    /\ response.lines = <<ExampleTitleLine, ExampleScoreLine>>
    /\ Len(all_opportunities) = 1
    /\ Len(signals) > 3

\* the text of the scored opportunity, lower-cased; empty when absent
MarketTextOf(opp) == IF "market_size" \in opp.keys THEN Lower(opp.market_size) ELSE << >>

\* the tier table: the terms of each tier and its score, in precedence order
MarketTiers ==
    <<[terms |-> {<<"b","i","l","l","i","o","n">>, <<"$","b">>, <<"b","n">>}, score |-> 95],
      [terms |-> {<<"m","i","l","l","i","o","n">>, <<"$","m">>, <<"m","n">>,
                  <<"$","1","0","0">>, <<"$","2","0","0">>, <<"$","3","0","0">>, <<"$","4","0","0">>},
       score |-> 85],
      [terms |-> {<<"l","a","r","g","e">>, <<"s","i","g","n","i","f","i","c","a","n","t">>, <<"s","u","b","s","t","a","n","t","i","a","l">>}, score |-> 75]>>

TierMatches(text, k) == \E term \in MarketTiers[k].terms : Contains(text, term)

\* C14: the improved market-size scorer returns the score of the first tier
\* whose term occurs in the lower-cased text (95, 85, 75), else 65 for a
\* non-empty text and 55 for an empty or absent one; always one of the five.
C14_MarketSizeIsFirstMatchingTier ==
    (analyzer = "improved" /\ pc = "scored") =>
      \A n \in 1..Len(result) :
        LET text == MarketTextOf(result[n].opp)
            got == result[n].detailed_scores.market_size
            matching == {k \in 1..Len(MarketTiers) : TierMatches(text, k)}
        IN /\ got \in {95, 85, 75, 65, 55}
           /\ \A k \in matching :
                 (\A j \in matching : k <= j) => got = MarketTiers[k].score
           /\ (matching = {} /\ text # << >>) => got = 65
           /\ (matching = {} /\ text = << >>) => got = 55

\* a mixed-case text naming both a million and a billion figure has been scored
C14_Witness ==
    /\ pc = "scored"
    /\ analyzer = "improved"
    /\ Len(unique) = 1
    /\ TierMatches(MarketTextOf(unique[1]), 1)
    /\ TierMatches(MarketTextOf(unique[1]), 2)
    /\ unique[1].market_size # Lower(unique[1].market_size)
    /\ result[1].detailed_scores.market_size = 95

\* the integer part of p / q for q > 0
IntegerPart(p, q) ==
    CHOOSE r \in -400..400 :
        IF p >= 0 THEN r * q <= p /\ p < (r + 1) * q
        ELSE (r - 1) * q < p /\ p <= r * q

\* the sum of the engagement scores of the signals, 0 without engagement
EngagementTotal(sigs) ==
    LET RECURSIVE Upto(_)
        Upto(k) == IF k = 0 THEN 0
                   ELSE Upto(k - 1) + (IF sigs[k].has_engagement THEN sigs[k].score ELSE 0)
    IN Upto(Len(sigs))

\* C15: customer_evidence is 60 without source signals, otherwise the integer
\* part of 50 + min(30, 6 * count) + min(20, avg / 20), capped at 100, where
\* avg is the engagement total over the count of all source signals.
C15_CustomerEvidenceFormula ==
    (analyzer = "improved" /\ pc = "scored") =>
      \A n \in 1..Len(result) :
        LET sigs == IF "source_signals" \in result[n].opp.keys
                    THEN result[n].opp.source_signals
                    ELSE << >>
            count == Len(sigs)
            total == EngagementTotal(sigs)
            got == result[n].detailed_scores.customer_evidence
            \* min(20, avg/20) = min(400 * count, total) / (20 * count)
            capped == IF total < 400 * count THEN total ELSE 400 * count
            signal_part == IF 6 * count < 30 THEN 6 * count ELSE 30
            whole == IntegerPart((50 + signal_part) * 20 * count + capped, 20 * count)
        IN IF count = 0 THEN got = 60
           ELSE got = (IF whole < 100 THEN whole ELSE 100)

\* an opportunity whose signal has so negative an engagement that the sum is
\* -0.5, where the integer part (0) differs from the floor, has been scored
C15_Witness ==
    /\ pc = "scored"
    /\ analyzer = "improved"
    /\ Len(unique) = 1
    /\ "source_signals" \in unique[1].keys
    /\ Len(unique[1].source_signals) = 1
    /\ EngagementTotal(unique[1].source_signals) = -1130
    /\ result[1].detailed_scores.customer_evidence = 0

\* C16: running the deduplicator on its own output returns that output
\* unchanged, same elements in the same order, in both analyzers.
C16_DedupIsIdempotent ==
    pc = "deduped_again" => opportunities = unique

\* a list of three candidates with the same title key was deduplicated twice
C16_Witness ==
    /\ pc = "deduped_again"
    /\ Len(all_opportunities) = 3
    /\ \A k \in 1..3 : SpecTitleKey(all_opportunities[k]) = SpecTitleKey(all_opportunities[1])
    /\ all_opportunities[1] # all_opportunities[2]
    /\ Len(unique) = 1

\* the k-th batch of the input: signals (k-1)*B+1 .. min(k*B, N)
NthBatch(k) ==
    SubSeq(signals, (k - 1) * batch_size + 1, Min(k * batch_size, Len(signals)))

\* the number of "repair" stages among the parsing stages of a batch
RepairCount(trace) == Cardinality({k \in 1..Len(trace) : trace[k].stage = "repair"})

\* C17: analyze_signals issues one extraction request per batch, in batch
\* order, ceil(N/B) in total; a failed or unparseable batch is not requested
\* again, and a batch is decoded again at most once, by the local repair.
C17_OneRequestPerBatch ==
    /\ \A k \in 1..Len(requests) : requests[k] = NthBatch(k)
    /\ Len(requests) = Len(batch_log)
    /\ pc \in {"done", "raised"} =>
          Len(requests) = (Len(signals) + batch_size - 1) \div batch_size
    /\ \A k \in 1..Len(batch_log) : RepairCount(batch_log[k].trace) <= 1

\* a call over two batches has ended: the first request failed, the answer to
\* the second could not be parsed by any stage; two requests were made
C17_Witness ==
    /\ pc = "done"
    /\ analyzer = "improved"
    /\ Len(batch_log) = 2
    /\ batch_log[1].answer = "error"
    /\ RepairCount(batch_log[2].trace) = 1
    /\ AllStagesYieldNone(batch_log[2].trace)
    /\ Len(requests) = 2

\* the constructor raised: no key was given or configured, no client exists,
\* nothing was batched or requested
ConfigErrorComesFirst ==
    pc = "config_error" =>
        /\ api_key \in {"None", ""}
        /\ client = "none"
        /\ batches = << >> /\ requests = << >> /\ batch_log = << >>

\* C18: constructing an analyzer without an API key raises the configuration
\* error before a client is created and before any batch or request; it is
\* the only error that aborts the extraction stage.
C18_OnlyConfigErrorAborts ==
    /\ ConfigErrorComesFirst
    /\ pc \in {"config_error", "raised"} => pc = "config_error"

\* C19: analyze_signals called with zero signals returns an empty list, raises
\* nothing and issues no extraction request, in both analyzers.
C19_EmptyInputReturnsEmpty ==
    (Len(signals) = 0 /\ pc \in {"loop", "done", "raised"}) =>
        /\ pc # "raised"
        /\ requests = << >>
        /\ pc = "done" => result = << >>

\* the basic analyzer has returned from a call with zero signals
C19_Witness ==
    /\ pc = "done"
    /\ analyzer = "basic"
    /\ Len(signals) = 0
    /\ result = << >>

\* an object that follows the response schema in the values the pipeline
\* computes with
FollowsSchema(opp) ==
    opp.title_kind = "str" /\ opp.cfs_kind = "int" /\ opp.ms_kind = "str"

\* the end-to-end scenario: a finished call of the structured analyzer on 10
\* signals in which the first request was answered by an array of two
\* well-formed opportunities with distinct non-empty titles and the second by
\* an empty array
ScenarioRan ==
    /\ analyzer = "improved"
    /\ pc \in {"done", "raised"}
    /\ Len(signals) = 10
    /\ Len(batch_log) = 2
    /\ batch_log[1].trace = <<[stage |-> "strict", yield |-> 2]>>
    /\ Len(batch_log[1].opps) = 2
    /\ \A k \in 1..2 : /\ FollowsSchema(batch_log[1].opps[k])
                       /\ SpecTitleKey(batch_log[1].opps[k]) # << >>
    /\ SpecTitleKey(batch_log[1].opps[1]) # SpecTitleKey(batch_log[1].opps[2])
    /\ batch_log[2].answer = "[]"

\* the scenario's outcome: the two opportunities of the first batch, each with
\* composite_score and detailed_scores by the scoring formula, highest first
ScenarioOutcome ==
    /\ pc = "done"
    /\ Len(result) = 2
    /\ ReturnsExactly(batch_log[1].opps)
    /\ \A k \in 1..2 :
          /\ {"composite_score", "detailed_scores"} \subseteq result[k].opp.keys
          /\ (10 * result[k].composite_score
                - SpecWeightedSum(result[k].detailed_scores)) \in -5..5
    /\ result[1].composite_score >= result[2].composite_score

\* what analyze_signals returns in general: the candidates of the batches in
\* batch order, deduplicated, scored and ranked
ResultIsRankedScoredDedup ==
    pc = "done" =>
        /\ all_opportunities = LoggedCandidates
        /\ unique = (IF analyzer = "improved"
                     THEN DeduplicateOpportunities(LoggedCandidates)
                     ELSE BasicDeduplicateOpportunities(LoggedCandidates))
        /\ ReturnsExactly(unique)
        /\ \A k \in 1..Len(result) :
              {"composite_score", "detailed_scores"} \subseteq result[k].opp.keys
        /\ \A a, b \in 1..Len(result) :
              a < b => result[a].composite_score >= result[b].composite_score

C21_EveryCallReturns == <>(pc \in {"done", "raised", "config_error"})

\* C22: a run that has a credential and whose extraction stage does not raise
\* writes the snapshot exactly once, and the snapshot then holds the list
\* analyze_signals returned (an empty one included), not an earlier run's.
C22_SnapshotHoldsTheReturnedList ==
    pc \in {"saved", "mock_after_empty"} =>
        /\ snapshot.writes = 1
        /\ snapshot.by = "this run"
        /\ snapshot.list = result

\* the opportunities of every section of the brief
InBrief ==
    {brief.top[k] : k \in 1..Len(brief.top)}
    \cup {brief.quick_wins[k] : k \in 1..Len(brief.quick_wins)}
    \cup {brief.actions[k] : k \in 1..Len(brief.actions)}

\* C23: no opportunity with a charter_fit_score below CHARTER_FIT_THRESHOLD is
\* in the top-opportunities, quick-wins or recommended-actions section of the
\* generated brief.
C23_BriefHasNoneBelowThreshold ==
    pc = "briefed" => \A o \in InBrief : o.opp.charter_fit_score >= 50

\* how often x occurs in list
Occurrences(list, x) == Cardinality({k \in 1..Len(list) : list[k] = x})

C26_AttributeIsTheLastReturnedList ==
    pc = "done" => opportunities = result

\* the distinct non-empty title keys of a list of candidates
DistinctKeys(cands) == {SpecTitleKey(cands[k]) : k \in 1..Len(cands)} \ {<< >>}

\* C27: in the list the improved analyze_signals returns no two opportunities
\* have the same title key, and the number of opportunities is the number
\* of distinct non-empty title keys among the candidates of all batches.
C27_OneOpportunityPerTitleKey ==
    (analyzer = "improved" /\ pc = "done") =>
        /\ \A a, b \in 1..Len(result) :
              a # b => SpecTitleKey(result[a].opp) # SpecTitleKey(result[b].opp)
        /\ Len(result) = Cardinality(DistinctKeys(LoggedCandidates))

\* the batches produced two candidates with the same key and one more, and
\* fewer opportunities than candidates were returned
C27_Witness ==
    /\ analyzer = "improved"
    /\ pc = "done"
    /\ Len(batch_log) >= 2
    /\ Len(LoggedCandidates) = 3
    /\ Len(result) = 2
    /\ \E a, b \in 1..3 :
          /\ a # b
          /\ SpecTitleKey(LoggedCandidates[a]) = SpecTitleKey(LoggedCandidates[b])
          /\ LoggedCandidates[a].title # LoggedCandidates[b].title

\* line is a RELEVANCE / CHARTER FIT line that states a value after its colon
StatesScore(line) ==
    /\ Contains(line, <<"R","E","L","E","V","A","N","C","E">>)
          \/ Contains(line, <<"C","H","A","R","T","E","R"," ","F","I","T">>)
    /\ HasColon(line)
    /\ HasNumber(AfterColon(line))

\* C28: the basic parser gives the batch's candidate the value stated on the
\* last RELEVANCE / CHARTER FIT line, also when the line begins with its list
\* number or repeats the range '(0-100)' before the value; a value at or above
\* the threshold yields the candidate.
C28_ScoreIsTheStatedValue ==
    pc = "parsed_sections" =>
        LET lines == response.lines
            stating == {k \in 1..Len(lines) : StatesScore(lines[k])}
        IN stating # {} =>
              LET last == CHOOSE k \in stating : \A j \in stating : j <= k
                  stated == FirstNumber(AfterColon(lines[last]))
              IN /\ \A k \in 1..Len(all_opportunities) :
                        all_opportunities[k].charter_fit_score = stated
                 /\ stated >= CHARTER_FIT_THRESHOLD => Len(all_opportunities) = 1

\* the source signals of a scored opportunity
SupportOf(r) == IF "source_signals" \in r.opp.keys THEN r.opp.source_signals ELSE << >>

\* C29: at the same average engagement an opportunity with more source
\* signals never has the lower customer_evidence sub-score, the step from no
\* signal to one included.
C29_MoreSignalsNeverLower ==
    (analyzer = "improved" /\ pc = "scored") =>
        \A a, b \in 1..Len(result) :
            LET fewer == SupportOf(result[a])
                more == SupportOf(result[b])
            IN (/\ Len(fewer) <= Len(more)
                /\ \/ Len(fewer) = 0
                   \/ EngagementTotal(fewer) * Len(more) = EngagementTotal(more) * Len(fewer))
               => result[a].detailed_scores.customer_evidence
                     <= result[b].detailed_scores.customer_evidence

\* from one signal on, more signals at the same average engagement never
\* lower the sub-score
MoreSignalsNeverLowerFromOne ==
    (analyzer = "improved" /\ pc = "scored") =>
        \A a, b \in 1..Len(result) :
            LET fewer == SupportOf(result[a])
                more == SupportOf(result[b])
            IN (/\ 1 <= Len(fewer) /\ Len(fewer) <= Len(more)
                /\ EngagementTotal(fewer) * Len(more) = EngagementTotal(more) * Len(fewer))
               => result[a].detailed_scores.customer_evidence
                     <= result[b].detailed_scores.customer_evidence

\* the kinds of line the fallback line-scanner tells apart
IsTitleLine(line) == Contains(Lower(line), <<"t","i","t","l","e">>) /\ HasColon(line)

IsScoreLine(line) ==
    ~IsTitleLine(line) /\ Contains(Lower(line), <<"s","c","o","r","e">>) /\ HasNumber(line)

IsPainPointLine(line) ==
    /\ ~IsTitleLine(line) /\ ~Contains(Lower(line), <<"s","c","o","r","e">>)
    /\ Contains(Lower(line), <<"p","a","i","n","_","p","o","i","n","t">>)
          \/ Contains(Lower(line), <<"c","u","s","t","o","m","e","r">>)
    /\ HasColon(line)

\* the position of the n-th title line of lines
NthTitleLine(lines, n) ==
    CHOOSE p \in 1..Len(lines) :
        /\ IsTitleLine(lines[p])
        /\ Cardinality({q \in 1..p : IsTitleLine(lines[q])}) = n

\* C30: the fallback line-scanner returns one candidate per line that holds
\* 'title' (any case) and a colon; a score or pain-point line belongs to the
\* candidate opened by the latest title line before it, and a score on a line
\* before the first title line is carried into the first candidate.
C30_LinesAttachToLatestTitle ==
    pc = "parsed" =>
        LET lines == response.lines
            titles == {k \in 1..Len(lines) : IsTitleLine(lines[k])}
        IN /\ Len(all_opportunities) = Cardinality(titles)
           /\ \A n \in 1..Len(all_opportunities) :
                 LET from == IF n = 1 THEN 1 ELSE NthTitleLine(lines, n)
                     upto == IF n = Cardinality(titles) THEN Len(lines)
                             ELSE NthTitleLine(lines, n + 1) - 1
                     scores == {k \in from..upto : IsScoreLine(lines[k])}
                     pains == {k \in NthTitleLine(lines, n)..upto : IsPainPointLine(lines[k])}
                     opp == all_opportunities[n]
                 IN /\ opp.title = StripQuotes(Strip(AfterColon(lines[NthTitleLine(lines, n)])))
                    /\ opp.charter_fit_score =
                          (IF scores = {} THEN FallbackCharterFit
                           ELSE FirstNumber(lines[CHOOSE k \in scores : \A j \in scores : j <= k]))
                    /\ opp.customer_pain_point =
                          (IF pains = {} THEN DefaultPainPoint
                           ELSE Strip(AfterColon(lines[CHOOSE k \in pains : \A j \in pains : j <= k])))

\* the same with a score before the first title line belonging to no
\* candidate
LinesAttachAfterTheirTitle ==
    pc = "parsed" =>
        LET lines == response.lines
            titles == {k \in 1..Len(lines) : IsTitleLine(lines[k])}
        IN /\ Len(all_opportunities) = Cardinality(titles)
           /\ \A n \in 1..Len(all_opportunities) :
                 LET from == NthTitleLine(lines, n)
                     upto == IF n = Cardinality(titles) THEN Len(lines)
                             ELSE NthTitleLine(lines, n + 1) - 1
                     scores == {k \in from..upto : IsScoreLine(lines[k])}
                     pains == {k \in from..upto : IsPainPointLine(lines[k])}
                     opp == all_opportunities[n]
                 IN /\ opp.title = StripQuotes(Strip(AfterColon(lines[from])))
                    /\ opp.charter_fit_score =
                          (IF scores = {} THEN FallbackCharterFit
                           ELSE FirstNumber(lines[CHOOSE k \in scores : \A j \in scores : j <= k]))
                    /\ opp.customer_pain_point =
                          (IF pains = {} THEN DefaultPainPoint
                           ELSE Strip(AfterColon(lines[CHOOSE k \in pains : \A j \in pains : j <= k])))

====
